---------------------------- MODULE Spec2Model ----------------------------
(***************************************************************************)
(* A model of bevy_behave: one behaviour tree (BehaveTree) that is ticked  *)
(* by tick_trees, the recursive evaluator tick_node, the status-report     *)
(* observer on_behave_status_report and BehaveTree::set_node_result.       *)
(*                                                                         *)
(* The tree is an arena: nodes are numbered 1..N in pre-order, node 1 is   *)
(* the root (ego_tree NodeIds are stable indices as well).                 *)
(***************************************************************************)
EXTENDS Integers, Sequences, FiniteSets, TLC

(***************************************************************************)
(* Bounds of the model.                                                    *)
(***************************************************************************)
\* number of task entities a run may spawn
MaxEntities == 2
\* number of times one TriggerReq leaf may fire its trigger in a run
MaxFires == 2
\* the clock (Time::elapsed_secs) runs from 0 to MaxTime clock ticks
MaxTime == 3

\* at most MaxChecks temporary entities are spawned for interrupt checks
MaxChecks == 2

\* Time::elapsed_secs and every duration are f32 seconds; the model counts them
\* in clock ticks of half a second, so that 0.5 s and 1.5 s are times of the model
TicksPerSec == 2

(***************************************************************************)
(* The tree templates (Tree<Behave>) handed to BehaveTree::new.            *)
(* parent[n] = 0 marks the root; secs is the duration of a Wait node in    *)
(* clock ticks (0 for the other kinds).  Templates 2 and 3 are the trees of               *)
(* test_empty_control_flow: permitted_children asks a Sequence and a       *)
(* Fallback for at least one child, so BehaveTree::new panics on them and  *)
(* no tree is built; so it does on templates 23 to 30.  Every other        *)
(* template passes BehaveTree::verify.                                     *)
(***************************************************************************)
\* The bundle of a DynamicEntity node: timeout is <<>> or one BehaveTimeout,
\* given by the seconds asked for (in clock ticks), the outcome, and whether it
\* was made by from_secs (TRUE) or by new on an exact Duration (FALSE); checks
\* holds the inverted flag of each trigger of the BehaveInterrupt, in the order
\* by/by_not/or/or_not added them (<<>>: no BehaveInterrupt).
Timeout(secs, should_succeed, from_secs) ==
  [secs |-> secs, should_succeed |-> should_succeed, from_secs |-> from_secs]

Bundle(timeout, checks) == [timeout |-> timeout, checks |-> checks]

\* BehaveInterrupt::by, ::by_not, .or and .or_not: add_trigger(trigger, inverted)
By == <<FALSE>>

ByNot == <<TRUE>>

Or(interrupt) == Append(interrupt, FALSE)

OrNot(interrupt) == Append(interrupt, TRUE)

NoBundle == Bundle(<<>>, <<>>)

TplB(kind, parent, secs, bundle) ==
  [kind |-> kind, parent |-> parent, secs |-> secs, bundle |-> bundle]

Tpl(kind, parent, secs) == TplB(kind, parent, secs, [n \in 1..Len(kind) |-> NoBundle])

\* a template with spawn_named(name, BehaveTree::new(..)) leaves: nested[n] is the
\* root of the tree in the bundle of DynamicEntity node n (0: the bundle holds
\* none).  The nodes of a nested tree follow those of the tree that spawns it;
\* its root has parent 0 as every root has.
TplN(kind, parent, secs, nested) ==
  [kind |-> kind, parent |-> parent, secs |-> secs,
   bundle |-> [n \in 1..Len(kind) |-> NoBundle], nested |-> nested]

Templates ==
  << \* 1: the tree of run_frame_delays: a trigger, then a spawned task
     Tpl(<<"Sequence", "TriggerReq", "DynamicEntity">>, <<0, 1, 1>>, <<0, 0, 0>>),
     \* 2, 3: empty control flow nodes (test_empty_control_flow)
     Tpl(<<"Sequence">>, <<0>>, <<0>>),
     Tpl(<<"Fallback">>, <<0>>, <<0>>),
     \* 4: a Sequence of three triggers
     Tpl(<<"Sequence", "TriggerReq", "TriggerReq", "TriggerReq">>, <<0, 1, 1, 1>>, <<0, 0, 0, 0>>),
     \* 5: a Fallback of three triggers
     Tpl(<<"Fallback", "TriggerReq", "TriggerReq", "TriggerReq">>, <<0, 1, 1, 1>>, <<0, 0, 0, 0>>),
     \* 6: Invert over a trigger
     Tpl(<<"Invert", "TriggerReq">>, <<0, 1>>, <<0, 0>>),
     \* 7: IfThen with an else branch
     Tpl(<<"IfThen", "TriggerReq", "TriggerReq", "DynamicEntity">>, <<0, 1, 1, 1>>, <<0, 0, 0, 0>>),
     \* 8: IfThen without an else branch
     Tpl(<<"IfThen", "TriggerReq", "DynamicEntity">>, <<0, 1, 1>>, <<0, 0, 0>>),
     \* 9: While with a condition and a body
     Tpl(<<"While", "TriggerReq", "TriggerReq">>, <<0, 1, 1>>, <<0, 0, 0>>),
     \* 10: While with a condition only
     Tpl(<<"While", "TriggerReq">>, <<0, 1>>, <<0, 0>>),
     \* 11: Forever over a spawned task
     Tpl(<<"Forever", "DynamicEntity">>, <<0, 1>>, <<0, 0>>),
     \* 12 (WhileTestTpl): the tree of test_while_node
     Tpl(<<"Forever", "Sequence", "TriggerReq", "While", "AlwaysSucceed", "TriggerReq">>,
         <<0, 1, 2, 2, 4, 4>>, <<0, 0, 0, 0, 0, 0>>),
     \* 13 (EndToEndTpl): the end-to-end scenario Sequence{Wait(1.0), Spawn}
     Tpl(<<"Sequence", "Wait", "DynamicEntity">>, <<0, 1, 1>>, <<0, 2, 0>>),
     \* 14: a Sequence that fails in the middle
     Tpl(<<"Sequence", "AlwaysSucceed", "AlwaysFail", "TriggerReq">>, <<0, 1, 1, 1>>, <<0, 0, 0, 0>>),
     \* 15: a Fallback with an inverted timer in the middle
     Tpl(<<"Fallback", "AlwaysFail", "Invert", "Wait", "AlwaysSucceed">>,
         <<0, 1, 1, 3, 1>>, <<0, 0, 0, 0, 0>>),
     \* 16: Invert over a looping While
     Tpl(<<"Invert", "While", "TriggerReq", "AlwaysSucceed">>, <<0, 1, 2, 2>>, <<0, 0, 0, 0>>),
     \* 17: nested control flow
     Tpl(<<"Sequence", "Fallback", "TriggerReq", "DynamicEntity", "Invert", "TriggerReq">>,
         <<0, 1, 2, 2, 1, 5>>, <<0, 0, 0, 0, 0, 0>>),
     \* 18: Forever over a leaf that resolves at once
     Tpl(<<"Forever", "AlwaysSucceed">>, <<0, 1>>, <<0, 0>>),
     \* 19: a While followed by a sibling in a Fallback
     Tpl(<<"Fallback", "While", "TriggerReq", "AlwaysSucceed", "DynamicEntity">>,
         <<0, 1, 2, 2, 1>>, <<0, 0, 0, 0, 0>>),
     \* 20: a While whose condition is a Forever
     Tpl(<<"While", "Forever", "TriggerReq", "AlwaysSucceed">>, <<0, 1, 2, 1>>, <<0, 0, 0, 0>>),
     \* 21: an IfThen whose branches are control nodes
     Tpl(<<"IfThen", "TriggerReq", "While", "TriggerReq", "TriggerReq", "Invert", "AlwaysSucceed">>,
         <<0, 1, 1, 3, 3, 1, 6>>, <<0, 0, 0, 0, 0, 0, 0>>),
     \* 22: Forever over a Fallback of a failing leaf and a trigger
     Tpl(<<"Forever", "Fallback", "AlwaysFail", "TriggerReq">>, <<0, 1, 2, 2>>, <<0, 0, 0, 0>>),
     \* 23, 24: an Invert with no child and with two children
     Tpl(<<"Sequence", "Invert">>, <<0, 1>>, <<0, 0>>),
     Tpl(<<"Invert", "AlwaysSucceed", "AlwaysFail">>, <<0, 1, 1>>, <<0, 0, 0>>),
     \* 25, 26: an IfThen with one child and with four children
     Tpl(<<"IfThen", "TriggerReq">>, <<0, 1>>, <<0, 0>>),
     Tpl(<<"Fallback", "AlwaysFail", "IfThen", "AlwaysSucceed", "AlwaysSucceed", "AlwaysFail",
           "TriggerReq">>, <<0, 1, 1, 3, 3, 3, 3>>, <<0, 0, 0, 0, 0, 0, 0>>),
     \* 27: a While with three children
     Tpl(<<"While", "TriggerReq", "TriggerReq", "TriggerReq">>, <<0, 1, 1, 1>>, <<0, 0, 0, 0>>),
     \* 28: a task node with a child
     Tpl(<<"Sequence", "AlwaysSucceed", "Wait", "TriggerReq">>, <<0, 1, 1, 3>>, <<0, 0, 2, 0>>),
     \* 29 (TwoSiblingsTpl): two offending nodes side by side
     Tpl(<<"Sequence", "Invert", "IfThen", "TriggerReq">>, <<0, 1, 1, 3>>, <<0, 0, 0, 0>>),
     \* 30 (NestedOffenderTpl): an offending node below an offending node
     Tpl(<<"Invert", "TriggerReq", "IfThen", "TriggerReq">>, <<0, 1, 1, 3>>, <<0, 0, 0, 0>>),
     \* 31: a Forever with two children, which permitted_children lets through
     Tpl(<<"Forever", "AlwaysSucceed", "AlwaysFail">>, <<0, 1, 1>>, <<0, 0, 0>>),
     \* 32 (InterruptTpl): the tree of test_behave_interrupt, a task with
     \* BehaveInterrupt::by(C) and BehaveTimeout::from_secs(1., false)
     TplB(<<"DynamicEntity">>, <<0>>, <<0>>,
          <<Bundle(<<Timeout(2, FALSE, TRUE)>>, By)>>),
     \* 33: the tree of test_behave_interrupt_inverted, by(C).or_not(C2) and the
     \* same timeout
     TplB(<<"DynamicEntity">>, <<0>>, <<0>>,
          <<Bundle(<<Timeout(2, FALSE, TRUE)>>, OrNot(By))>>),
     \* 34: a task with BehaveTimeout::from_secs(0.5, true), then a trigger
     TplB(<<"Sequence", "DynamicEntity", "TriggerReq">>, <<0, 1, 1>>, <<0, 0, 0>>,
          <<NoBundle, Bundle(<<Timeout(1, TRUE, TRUE)>>, <<>>), NoBundle>>),
     \* 35: a task with BehaveTimeout::from_secs(1.5, false) in a Fallback
     TplB(<<"Fallback", "DynamicEntity", "AlwaysSucceed">>, <<0, 1, 1>>, <<0, 0, 0>>,
          <<NoBundle, Bundle(<<Timeout(3, FALSE, TRUE)>>, <<>>), NoBundle>>),
     \* 36: a task with BehaveTimeout::new(Duration::from_millis(500), true)
     TplB(<<"Invert", "DynamicEntity">>, <<0, 1>>, <<0, 0>>,
          <<NoBundle, Bundle(<<Timeout(1, TRUE, FALSE)>>, <<>>)>>),
     \* 37: a task with BehaveInterrupt::by_not(C), then a trigger
     TplB(<<"Sequence", "DynamicEntity", "TriggerReq">>, <<0, 1, 1>>, <<0, 0, 0>>,
          <<NoBundle, Bundle(<<>>, ByNot), NoBundle>>),
     \* 38 (FrameDelayTpl): the tree of run_frame_delays, Sequence{trigger,
     \* spawn_named("Nested tree", BehaveTree::new(behave!{trigger}))}
     TplN(<<"Sequence", "TriggerReq", "DynamicEntity", "TriggerReq">>, <<0, 1, 1, 0>>,
          <<0, 0, 0, 0>>, <<0, 0, 4, 0>>),
     \* 39 (NestedAtOnceTpl): spawn_named(name, BehaveTree::new(behave!{AlwaysSucceed})),
     \* a task whose nested tree resolves in its first tick
     TplN(<<"DynamicEntity", "AlwaysSucceed">>, <<0, 0>>, <<0, 0>>, <<2, 0>>)
  >>

FrameDelayTpl == 38

NestedAtOnceTpl == 39

\* the template of test_while_node and, in it, the trigger leaf that must run
\* once (RunAssert) and the one in the While (Count)
WhileTestTpl == 12
RunAssertNode == 3
CountNode == 6

VARIABLES
  tpl,        \* index in Templates of the tree that was built
  nodes,      \* node id -> BehaveNode (the Tree<BehaveNode> of the BehaveTree)
  awaiting,   \* the tree entity carries BehaveAwaitingTrigger
  finished,   \* "None", or the BehaveFinished(bool) the tree entity carries
  treeAlive,  \* the entity that holds the BehaveTree exists
  panicked,   \* BehaveTree::new or tick_node hit a panic!/expect/unreachable!
  now,        \* Time::elapsed_secs
  cmds,       \* the Commands queued by the last tick and not yet applied
  nextEntity, \* the next Entity id commands.spawn hands out
  alive,      \* the task entities that exist
  handedOut,  \* the BehaveCtx values given to user code
  released,   \* task entity -> number of despawn commands issued for it
  spawnedBy,  \* task entity -> the node that spawned it (0: not spawned)
  fired,      \* node -> number of times its trigger was fired
  allOk,      \* every status report delivered so far reported success
  owed,       \* node -> the outcome of the report that completed its Started task,
              \* until a tick reaches the node ("None": nothing owed)
  last,       \* the operation that made the last step, with its arguments
  log,        \* the tick_node calls of the last tick, in the order they returned
  resets,     \* the <<r, m>> such that the last tick reset m because r was PendingReset
  timeoutStart, \* task entity -> start_time of its BehaveTimeout (-1: it has none)
  pending,    \* InterruptState::pending_interrupts, one record for each temp entity
  nextTemp,   \* the number of the next temp entity of an interrupt check
  temps,      \* the temp entities of interrupt checks that exist
  answered,   \* the interrupt check the last step handled the response to
  sources,    \* node -> who has issued status reports for it: "task", "timeout", "interrupt"
  sync,       \* BehavePlugin.synchronous
  frame,      \* the number of runs of the schedule (scheduling steps) begun
  phase,      \* where the schedule is: "idle" between two runs, "tick" once
              \* tick_timeout_components has run; "off" where no schedule is modelled
  passes,     \* sanity_counter of tick_trees_sync: the loop passes begun in this step
  trees,      \* root -> the entity of that BehaveTree and its marker components
  policy,     \* how the observers answer a trigger: "ok", "fail", or "later"
  ticks,      \* root -> number of ticks of that tree in this step
  finishedAt, \* root -> the step in which BehaveFinished was inserted (0: not yet)
  reportedAt, \* node -> the step in which the report it holds was applied (0: none)
  lateReports \* number of reports user code has issued between two steps

vars == <<tpl, nodes, awaiting, finished, treeAlive, panicked, now, cmds, nextEntity,
          alive, handedOut, released, spawnedBy, fired, allOk, owed, last, log, resets,
          timeoutStart, pending, nextTemp, temps, answered, sources,
          sync, frame, phase, passes, trees, policy, ticks, finishedAt, reportedAt,
          lateReports>>

\* the variables of the schedule
schedVars == <<sync, frame, phase, passes, trees, policy, ticks, finishedAt, reportedAt,
               lateReports>>

(***************************************************************************)
(* Navigation in the tree (ego_tree).                                      *)
(***************************************************************************)
T == Templates[tpl]
NodeIds == 1..Len(T.kind)
Root == 1
Kind(n) == T.kind[n]
Parent(n) == T.parent[n]
SecsToWait(n) == T.secs[n]

Children(n) == SelectSeq([i \in NodeIds |-> i], LAMBDA m : T.parent[m] = n)

FirstChild(n) == IF Children(n) = <<>> THEN 0 ELSE Head(Children(n))

IndexIn(seq, x) == CHOOSE i \in 1..Len(seq) : seq[i] = x

NextSibling(n) ==
  IF Parent(n) = 0 THEN 0
  ELSE LET cs == Children(Parent(n))
           i == IndexIn(cs, n)
       IN IF i < Len(cs) THEN cs[i + 1] ELSE 0

HasSiblings(n) == Parent(n) # 0 /\ Len(Children(Parent(n))) > 1

RECURSIVE IsAncestor(_, _)
\* a is a proper ancestor of n
IsAncestor(a, n) ==
  IF Parent(n) = 0 THEN FALSE
  ELSE Parent(n) = a \/ IsAncestor(a, Parent(n))

Subtree(n) == {m \in NodeIds : m = n \/ IsAncestor(n, m)}

\* a permitted_children that lets an Invert have two children
PermittedChildrenInvertTwo(kind, len) ==
  CASE kind = "Sequence" -> 1 <= len
    [] kind = "Fallback" -> 1 <= len
    [] kind = "Forever" -> 1 <= len
    [] kind = "While" -> 1 <= len /\ len <= 2
    [] kind = "IfThen" -> 2 <= len /\ len <= 3
    [] kind = "Invert" -> 1 <= len /\ len <= 2
    [] OTHER -> len = 0

\* Behave::permitted_children(kind).contains(len); a usize is never above the
\* usize::MAX that closes the ranges of Sequence, Fallback and Forever
PermittedChildren(kind, len) ==
  CASE kind = "Sequence" -> 1 <= len
    [] kind = "Fallback" -> 1 <= len
    [] kind = "Forever" -> 1 <= len
    [] kind = "While" -> 1 <= len /\ len <= 2
    [] kind = "IfThen" -> 2 <= len /\ len <= 3
    [] kind = "Invert" -> 1 <= len /\ len <= 1
    [] OTHER -> len = 0

RECURSIVE VerifyTree(_)
\* verify_tree(node)
VerifyTree(n) ==
  IF ~PermittedChildren(Kind(n), Len(Children(n))) THEN FALSE
  ELSE \A i \in 1..Len(Children(n)) : VerifyTree(Children(n)[i])

RECURSIVE VerifyErrors(_), VerifyErrorsFrom(_, _)
\* verify_tree(node): the nodes it logs an error! for, in order.  It logs the
\* node whose child count is out of range and returns without a look at the
\* children; otherwise it goes through the children and returns at the first
\* one that fails
VerifyErrors(n) ==
  IF ~PermittedChildren(Kind(n), Len(Children(n))) THEN <<n>>
  ELSE VerifyErrorsFrom(n, 1)

\* the loop over the children of n, from child i on
VerifyErrorsFrom(n, i) ==
  IF i > Len(Children(n)) THEN <<>>
  ELSE IF VerifyErrors(Children(n)[i]) # <<>> THEN VerifyErrors(Children(n)[i])
  ELSE VerifyErrorsFrom(n, i + 1)

(***************************************************************************)
(* BehaveNode: the runtime state of one node.  status is the               *)
(* Option<BehaveNodeStatus> ("None" for None); start_time is -1 for None;  *)
(* task_status is the tag of EntityTaskStatus / TriggerTaskStatus,         *)
(* task_entity the Entity of Started(e) (0 otherwise) and task_ok the bool *)
(* of Complete(b) (FALSE otherwise).                                       *)
(***************************************************************************)
BehaveNodeNew(kind) ==
  [status      |-> "None",
   start_time  |-> -1,
   task_status |-> CASE kind = "TriggerReq" -> "NotTriggered"
                     [] kind = "DynamicEntity" -> "NotStarted"
                     [] OTHER -> "NA",
   task_entity |-> 0,
   task_ok     |-> FALSE]

\* a reset that clears the status and nothing else
ResetStatusOnly(node, kind) ==
  [node EXCEPT !.status = "None"]

\* BehaveNode::reset
Reset(node, kind) ==
  CASE kind = "TriggerReq" ->
         [node EXCEPT !.status = "None", !.task_status = "NotTriggered",
                      !.task_entity = 0, !.task_ok = FALSE]
    [] kind = "Wait" ->
         [node EXCEPT !.status = "None", !.start_time = -1]
    [] kind = "DynamicEntity" ->
         [node EXCEPT !.status = "None", !.task_status = "NotStarted",
                      !.task_entity = 0, !.task_ok = FALSE]
    [] OTHER ->
         [node EXCEPT !.status = "None"]

(***************************************************************************)
(* The state one call of tick_node works on: ns the nodes of the tree, fx  *)
(* the commands queued so far, next the next Entity id; log and resets are *)
(* a record of the calls made and of the nodes reset.                      *)
(***************************************************************************)
TickStart(ns, next) == [ns |-> ns, fx |-> <<>>, log |-> <<>>, resets |-> {}, next |-> next]

SetStatus(s, n, st) == [s EXCEPT !.ns[n].status = st]

Result(s, st) == [s |-> s, st |-> st]

\* a reset that goes over the whole tree
ResetWholeTree(s, r, n) ==
  [s EXCEPT !.ns = [m \in DOMAIN s.ns |-> Reset(s.ns[m], Kind(m))],
            !.resets = @ \cup {<<r, m>> : m \in DOMAIN s.ns}]

RECURSIVE ResetDescendants(_, _, _)
\* reset_descendants(n), called because node r was PendingReset
ResetDescendants(s, r, n) ==
  LET a == [s EXCEPT !.ns[n] = Reset(@, Kind(n)), !.resets = @ \cup {<<r, n>>}]
      b == IF NextSibling(n) # 0 THEN ResetDescendants(a, r, NextSibling(n)) ELSE a
  IN IF FirstChild(n) # 0 THEN ResetDescendants(b, r, FirstChild(n)) ELSE b

\* a short circuit that forgets Failure
ShortCircuitSuccessOnly(st) == st = "Success"

\* the statuses on which tick_node returns at once
ShortCircuit(st) == st = "Success" \/ st = "Failure"

RECURSIVE TickNode(_, _, _)

\* a While that ends with Success when its body succeeds
TickWhileOnce(s0, n, time) ==
  LET s1 == SetStatus(s0, n, "Running")
      first_child == FirstChild(n)
      c == TickNode(s1, first_child, time)
  IN IF c.st = "Success" THEN
       LET s2 == SetStatus(c.s, first_child, "Success")
           second_child == NextSibling(first_child)
       IN IF second_child # 0 THEN
            LET b == TickNode(s2, second_child, time)
            IN Result(SetStatus(b.s, n, b.st), b.st)
          ELSE Result(SetStatus(s2, n, "PendingReset"), "PendingReset")
     ELSE Result(SetStatus(SetStatus(c.s, first_child, c.st), n, c.st), c.st)

\* tick_node, the While arm
TickWhile(s0, n, time) ==
  LET s1 == SetStatus(s0, n, "Running")
      first_child == FirstChild(n)
  IN IF first_child = 0 THEN Result(s1, "Panic")
     ELSE
       LET c == TickNode(s1, first_child, time) IN
       IF c.st = "Success" THEN
         LET s2 == SetStatus(c.s, first_child, "Success")
             second_child == NextSibling(first_child)
         IN IF second_child # 0 THEN
              LET b == TickNode(s2, second_child, time) IN
              IF b.st = "Success"
                THEN Result(SetStatus(SetStatus(b.s, second_child, "Success"), n, "PendingReset"),
                            "PendingReset")
                ELSE Result(SetStatus(b.s, n, b.st), b.st)
            ELSE Result(SetStatus(s2, n, "PendingReset"), "PendingReset")
       ELSE Result(SetStatus(SetStatus(c.s, first_child, c.st), n, c.st), c.st)

\* an IfThen that takes a missing else branch for a success
TickIfThenNoElseSucceeds(s0, n, time) ==
  LET s1 == SetStatus(s0, n, "Running")
      conditional_child == FirstChild(n)
      c == TickNode(s1, conditional_child, time)
      then_child == NextSibling(conditional_child)
  IN CASE c.st = "Success" ->
            LET t == TickNode(SetStatus(c.s, conditional_child, "Success"), then_child, time)
            IN Result(SetStatus(t.s, n, t.st), t.st)
       [] c.st = "Failure" ->
            LET s2 == SetStatus(c.s, conditional_child, "Failure") IN
            IF NextSibling(then_child) # 0
              THEN LET e == TickNode(s2, NextSibling(then_child), time)
                   IN Result(SetStatus(e.s, n, e.st), e.st)
              ELSE Result(SetStatus(s2, n, "Success"), "Success")
       [] OTHER -> Result(SetStatus(c.s, n, c.st), c.st)

\* tick_node, the IfThen arm
TickIfThen(s0, n, time) ==
  LET s1 == SetStatus(s0, n, "Running")
      conditional_child == FirstChild(n)
  IN IF conditional_child = 0 THEN Result(s1, "Panic")
     ELSE
       LET c == TickNode(s1, conditional_child, time)
           then_child == NextSibling(conditional_child)
       IN CASE c.st = "Success" ->
                 LET s2 == SetStatus(c.s, conditional_child, "Success") IN
                 IF then_child = 0 THEN Result(s2, "Panic")
                 ELSE LET t == TickNode(s2, then_child, time)
                      IN Result(SetStatus(t.s, n, t.st), t.st)
            [] c.st = "Failure" ->
                 LET s2 == SetStatus(c.s, conditional_child, "Failure") IN
                 IF then_child = 0 THEN Result(s2, "Panic")
                 ELSE LET else_child == NextSibling(then_child) IN
                      IF else_child # 0
                        THEN LET e == TickNode(s2, else_child, time)
                             IN Result(SetStatus(e.s, n, e.st), e.st)
                        ELSE Result(SetStatus(s2, n, "Failure"), "Failure")
            [] OTHER -> Result(SetStatus(c.s, n, c.st), c.st)

\* a Forever that ends with the result of its child
ForeverResultOfChild(s, n, st) == Result(SetStatus(s, n, st), st)

\* a Forever that loops back whatever its child returned
ForeverResultLoopsAlways(s, n, st) ==
  Result(SetStatus(s, n, "PendingReset"), "PendingReset")

\* what a Forever node makes of the status its child returned
ForeverResult(s, n, st) ==
  IF st = "Success" \/ st = "Failure"
    THEN Result(SetStatus(s, n, "PendingReset"), "PendingReset")
    ELSE Result(s, st)

\* a Forever that resets its child and ticks it again in the tick it resolved in
TickForeverAtOnce(s0, n, time) ==
  LET s1 == SetStatus(s0, n, "Running")
      only_child == FirstChild(n)
  IN IF only_child = 0 \/ HasSiblings(only_child) THEN Result(s1, "Panic")
     ELSE LET c == TickNode(s1, only_child, time)
          IN IF c.st = "Success" \/ c.st = "Failure"
               THEN LET d == TickNode(ResetDescendants(c.s, n, only_child), only_child, time)
                    IN ForeverResult(d.s, n, d.st)
               ELSE Result(c.s, c.st)

\* tick_node, the Forever arm
TickForever(s0, n, time) ==
  LET s1 == SetStatus(s0, n, "Running")
      only_child == FirstChild(n)
  IN IF only_child = 0 \/ HasSiblings(only_child) THEN Result(s1, "Panic")
     ELSE LET c == TickNode(s1, only_child, time)
          IN ForeverResult(c.s, n, c.st)

\* tick_node, the TriggerReq arms
TickTriggerReq(s, n, time) ==
  LET node == s.ns[n] IN
  CASE node.task_status = "NotTriggered" ->
         Result([s EXCEPT !.fx = Append(@, [op |-> "trigger", node |-> n, e |-> 0]),
                          !.ns[n].task_status = "Triggered",
                          !.ns[n].status = "Running"],
                "Running")
    [] node.task_status = "Complete" /\ node.task_ok ->
         Result(SetStatus(s, n, "Success"), "Success")
    [] node.task_status = "Complete" /\ ~node.task_ok ->
         Result(SetStatus(s, n, "Failure"), "Failure")
    [] node.task_status = "Triggered" ->
         Result(SetStatus(s, n, "AwaitingTrigger"), "AwaitingTrigger")

\* an Invert that swaps nothing
SwappedNothing(st) == st

\* the status an Invert node makes of the status its child returned
Swapped(st) ==
  CASE st = "Success" -> "Failure"
    [] st = "Failure" -> "Success"
    [] OTHER -> st

\* tick_node, the Invert arm
TickInvert(s, n, time) ==
  LET only_child == FirstChild(n) IN
  IF only_child = 0 \/ HasSiblings(only_child) THEN Result(s, "Panic")
  ELSE LET c == TickNode(s, only_child, time)
           res == Swapped(c.st)
       IN Result(SetStatus(c.s, n, res), res)

\* a Wait that waits twice the time it was given
TickWaitTwice(s, n, time) ==
  LET node == s.ns[n] IN
  IF node.start_time = -1
    THEN Result([s EXCEPT !.ns[n].start_time = time, !.ns[n].status = "Running"], "Running")
    ELSE IF time - node.start_time > 2 * SecsToWait(n)
           THEN Result(SetStatus(s, n, "Success"), "Success")
           ELSE Result(s, "RunningTimer")

\* a Wait that is over as soon as the time elapsed reaches its duration
TickWaitNotStrict(s, n, time) ==
  LET node == s.ns[n] IN
  IF node.start_time = -1
    THEN Result([s EXCEPT !.ns[n].start_time = time, !.ns[n].status = "Running"], "Running")
    ELSE LET elapsed == time - node.start_time IN
         IF elapsed >= SecsToWait(n)
           THEN Result(SetStatus(s, n, "Success"), "Success")
           ELSE Result(s, "RunningTimer")

\* tick_node, the Wait arms
TickWait(s, n, time) ==
  LET node == s.ns[n] IN
  IF node.start_time = -1
    THEN Result([s EXCEPT !.ns[n].start_time = time, !.ns[n].status = "Running"], "Running")
    ELSE LET elapsed == time - node.start_time IN
         IF elapsed > SecsToWait(n)
           THEN Result(SetStatus(s, n, "Success"), "Success")
           ELSE Result(s, "RunningTimer")

\* a DynamicEntity leaf that goes dormant in the tick that starts it
TickDynamicEntityNoGrace(s, n, time) ==
  LET node == s.ns[n] IN
  CASE node.task_status = "NotStarted" ->
         Result([s EXCEPT !.fx = Append(@, [op |-> "spawn", node |-> n, e |-> s.next]),
                          !.next = @ + 1,
                          !.ns[n].task_status = "Started",
                          !.ns[n].task_entity = s.next,
                          !.ns[n].status = "AwaitingTrigger"],
                "AwaitingTrigger")
    [] node.task_status = "Started" ->
         Result(SetStatus(s, n, "AwaitingTrigger"), "AwaitingTrigger")
    [] node.task_status = "Complete" /\ node.task_ok ->
         Result(SetStatus(s, n, "Success"), "Success")
    [] node.task_status = "Complete" /\ ~node.task_ok ->
         Result(SetStatus(s, n, "Failure"), "Failure")

\* tick_node, the DynamicEntity arms
TickDynamicEntity(s, n, time) ==
  LET node == s.ns[n] IN
  CASE node.task_status = "NotStarted" ->
         Result([s EXCEPT !.fx = Append(@, [op |-> "spawn", node |-> n, e |-> s.next]),
                          !.next = @ + 1,
                          !.ns[n].task_status = "Started",
                          !.ns[n].task_entity = s.next,
                          !.ns[n].status = "Running"],
                "Running")
    [] node.task_status = "Started" /\ node.status = "Running" ->
         Result(SetStatus(s, n, "AwaitingTrigger"), "AwaitingTrigger")
    [] node.task_status = "Started" /\ node.status # "Running" ->
         Result(s, "Panic")
    [] node.task_status = "Complete" /\ node.task_ok ->
         Result(SetStatus(s, n, "Success"), "Success")
    [] node.task_status = "Complete" /\ ~node.task_ok ->
         Result(SetStatus(s, n, "Failure"), "Failure")

RECURSIVE SequenceLoop(_, _, _, _)
\* a Sequence loop that goes on to the next sibling after a failure
SequenceLoopPastFailure(s, n, child, time) ==
  LET c == TickNode(s, child, time) IN
  IF c.st \in {"Success", "Failure"} /\ NextSibling(child) # 0
    THEN SequenceLoop(c.s, n, NextSibling(child), time)
    ELSE Result(SetStatus(c.s, n, c.st), c.st)

\* a Sequence loop that goes on to the next sibling while a child is Running
SequenceLoopPastRunning(s, n, child, time) ==
  LET c == TickNode(s, child, time) IN
  IF c.st \in {"Success", "Running"} /\ NextSibling(child) # 0
    THEN SequenceLoop(c.s, n, NextSibling(child), time)
    ELSE Result(SetStatus(c.s, n, c.st), c.st)

\* the loop of the SequenceFlow arm, at child
SequenceLoop(s, n, child, time) ==
  LET c == TickNode(s, child, time) IN
  IF c.st = "Success" /\ NextSibling(child) # 0
    THEN SequenceLoop(c.s, n, NextSibling(child), time)
    ELSE Result(SetStatus(c.s, n, c.st), c.st)

\* tick_node, the SequenceFlow arm
TickSequence(s, n, time) ==
  IF FirstChild(n) = 0 THEN Result(s, "Success")
  ELSE SequenceLoop(s, n, FirstChild(n), time)

RECURSIVE FallbackLoop(_, _, _, _)
\* a Fallback loop that goes on to the next sibling after a success
FallbackLoopPastSuccess(s, n, child, time) ==
  LET c == TickNode(s, child, time) IN
  IF c.st \in {"Success", "Failure"} /\ NextSibling(child) # 0
    THEN FallbackLoop(c.s, n, NextSibling(child), time)
    ELSE Result(SetStatus(c.s, n, c.st), c.st)

\* the loop of the FallbackFlow arm, at child
FallbackLoop(s, n, child, time) ==
  LET c == TickNode(s, child, time) IN
  IF c.st = "Failure" /\ NextSibling(child) # 0
    THEN FallbackLoop(c.s, n, NextSibling(child), time)
    ELSE Result(SetStatus(c.s, n, c.st), c.st)

\* tick_node, the FallbackFlow arm
TickFallback(s, n, time) ==
  IF FirstChild(n) = 0 THEN Result(s, "Success")
  ELSE FallbackLoop(s, n, FirstChild(n), time)

\* tick_node after the short circuit and the reset: the match on the node
TickKind(s, n, time) ==
  CASE Kind(n) = "While" -> TickWhile(s, n, time)
    [] Kind(n) = "IfThen" -> TickIfThen(s, n, time)
    [] Kind(n) = "Forever" -> TickForever(s, n, time)
    [] Kind(n) = "TriggerReq" -> TickTriggerReq(s, n, time)
    [] Kind(n) = "Invert" -> TickInvert(s, n, time)
    [] Kind(n) = "AlwaysSucceed" -> Result(SetStatus(s, n, "Success"), "Success")
    [] Kind(n) = "AlwaysFail" -> Result(SetStatus(s, n, "Failure"), "Failure")
    [] Kind(n) = "Wait" -> TickWait(s, n, time)
    [] Kind(n) = "DynamicEntity" -> TickDynamicEntity(s, n, time)
    [] Kind(n) = "Sequence" -> TickSequence(s, n, time)
    [] Kind(n) = "Fallback" -> TickFallback(s, n, time)

\* the entry the call of tick_node on n leaves in the log: the status it
\* returned, whether it returned at the short circuit, and the status and task
\* status the node had when the call began
Logged(r, n, sc, was) ==
  [s |-> [r.s EXCEPT !.log = Append(@, [node |-> n, st |-> r.st, sc |-> sc,
                                         was |-> was.status, task_was |-> was.task_status])],
   st |-> r.st]

\* tick_node
TickNode(s, n, time) ==
  LET st0 == s.ns[n].status IN
  IF ShortCircuit(st0) THEN Logged(Result(s, st0), n, TRUE, s.ns[n])
  ELSE LET s1 == IF st0 = "PendingReset"
                   THEN ResetDescendants(SetStatus(s, n, "Running"), n, n)
                   ELSE s
       IN Logged(TickKind(s1, n, time), n, FALSE, s.ns[n])

(***************************************************************************)
(* The status-report path: BehaveCtx, BehaveTree::set_node_result and      *)
(* on_behave_status_report.                                                *)
(***************************************************************************)
\* BehaveCtx::new_for_trigger / new_for_entity: the fields the report path reads
BehaveCtx(task_node, ctx_type, task_entity) ==
  [task_node |-> task_node, ctx_type |-> ctx_type, task_entity |-> task_entity]

NoCtx == BehaveCtx(0, "None", 0)

\* a set_node_result that hands the task entity back without storing Complete
SetNodeResultKeepsStarted(ns, ctx, success) ==
  LET n == ctx.task_node IN
  CASE Kind(n) = "DynamicEntity" /\ ctx.ctx_type = "Entity" ->
         [ns |-> ns,
          task_entity |-> IF ns[n].task_status = "Started" THEN ns[n].task_entity ELSE 0]
    [] Kind(n) = "TriggerReq" ->
         [ns |-> [ns EXCEPT ![n].task_status = "Complete", ![n].task_ok = success],
          task_entity |-> 0]
    [] OTHER ->
         [ns |-> ns, task_entity |-> 0]

\* BehaveTree::set_node_result: the nodes afterwards and the entity to despawn
\* (0 for None)
SetNodeResult(ns, ctx, success) ==
  LET n == ctx.task_node IN
  CASE Kind(n) = "DynamicEntity" /\ ctx.ctx_type = "Entity" ->
         [ns |-> [ns EXCEPT ![n].task_status = "Complete", ![n].task_ok = success,
                            ![n].task_entity = 0],
          task_entity |-> IF ns[n].task_status = "Started" THEN ns[n].task_entity ELSE 0]
    [] Kind(n) = "TriggerReq" ->
         [ns |-> [ns EXCEPT ![n].task_status = "Complete", ![n].task_ok = success],
          task_entity |-> 0]
    [] OTHER ->
         [ns |-> ns, task_entity |-> 0]

\* the record kept of the last step
Last(op, ctx, ok, st, was) == [op |-> op, ctx |-> ctx, ok |-> ok, st |-> st, was |-> was]

Entities == 1..MaxEntities

\* the bundle the DynamicEntity node n spawns its task entity with
BundleOf(n) == Templates[tpl].bundle[n]

HasTimeout(n) == BundleOf(n).timeout # <<>>

TimeoutOf(n) == BundleOf(n).timeout[1]

\* the triggers of the BehaveInterrupt of the bundle: their inverted flags
Checks(n) == BundleOf(n).checks

\* BehaveTimeout::from_secs: Duration::from_secs(secs as u64); the cast of the
\* f32 to u64 drops the fraction
FromSecs(secs) == (secs \div TicksPerSec) * TicksPerSec

\* the duration field of the BehaveTimeout of node n, in clock ticks
Duration(n) ==
  IF TimeoutOf(n).from_secs THEN FromSecs(TimeoutOf(n).secs) ELSE TimeoutOf(n).secs

\* no interrupt check
NoCheck == [temp |-> 0, ctx |-> NoCtx, ok |-> FALSE, inverted |-> FALSE]

\* BehaveTree::new on one of the templates: verify, then tree.map(BehaveNode::new)
InitTree ==
  /\ tpl \in 1..Len(Templates)
  /\ nodes = [n \in 1..Len(Templates[tpl].kind) |-> BehaveNodeNew(Templates[tpl].kind[n])]
  /\ awaiting = FALSE
  /\ finished = "None"
  /\ treeAlive = TRUE
  /\ panicked = ~VerifyTree(Root)
  /\ now = 0
  /\ cmds = <<>>
  /\ nextEntity = 1
  /\ alive = {}
  /\ handedOut = {}
  /\ released = [e \in Entities |-> 0]
  /\ spawnedBy = [e \in Entities |-> 0]
  /\ fired = [n \in 1..Len(Templates[tpl].kind) |-> 0]
  /\ allOk = TRUE
  /\ owed = [n \in 1..Len(Templates[tpl].kind) |-> "None"]
  /\ last = Last("init", NoCtx, FALSE, "None", "None")
  /\ log = <<>>
  /\ resets = {}
  /\ timeoutStart = [e \in Entities |-> -1]
  /\ pending = {}
  /\ nextTemp = 1
  /\ temps = {}
  /\ answered = NoCheck
  /\ sources = [n \in 1..Len(Templates[tpl].kind) |-> {}]

\* no schedule is modelled: the systems and observers run in any order
SchedOff ==
  /\ sync = FALSE
  /\ frame = 0
  /\ phase = "off"
  /\ passes = 0
  /\ trees = <<>>
  /\ policy = "later"
  /\ ticks = <<>>
  /\ finishedAt = <<>>
  /\ reportedAt = <<>>
  /\ lateReports = 0

Init == InitTree /\ SchedOff

\* a match on the tick result with the arms for Success and Failure exchanged
MarkerCmdsSwapped(tick_result) ==
  CASE tick_result = "AwaitingTrigger" -> << [op |-> "insert_awaiting", node |-> 0, e |-> 0] >>
    [] tick_result = "Success" -> << [op |-> "insert_finished_false", node |-> 0, e |-> 0] >>
    [] tick_result = "Failure" -> << [op |-> "insert_finished_true", node |-> 0, e |-> 0] >>
    [] OTHER -> <<>>

\* tick_trees: the command the tick system queues for the status the root returned
MarkerCmds(tick_result) ==
  CASE tick_result = "AwaitingTrigger" -> << [op |-> "insert_awaiting", node |-> 0, e |-> 0] >>
    [] tick_result = "Success" -> << [op |-> "insert_finished_true", node |-> 0, e |-> 0] >>
    [] tick_result = "Failure" -> << [op |-> "insert_finished_false", node |-> 0, e |-> 0] >>
    [] OTHER -> <<>>

\* a query filter that lets finished trees through
EligibleThoughFinished == treeAlive /\ ~awaiting

\* the query filter of tick_trees: Without<BehaveAwaitingTrigger>, Without<BehaveFinished>
Eligible == treeAlive /\ ~awaiting /\ finished = "None"

\* tick_trees once BehaveTree::tick has returned r: the tree keeps what the tick
\* wrote, the commands of the tick and of the match on the result are queued
TickTreesResult(r) ==
     IF r.st = "Panic"
       THEN /\ panicked' = TRUE
            /\ last' = Last("tick", NoCtx, FALSE, "Panic", "None")
            /\ answered' = NoCheck
            /\ UNCHANGED <<tpl, nodes, awaiting, finished, treeAlive, now, cmds, nextEntity,
                           alive, handedOut, released, spawnedBy, fired, allOk, owed, log,
                           resets, timeoutStart, pending, nextTemp, temps, sources>>
       ELSE /\ r.s.next <= MaxEntities + 1
            /\ \A i \in 1..Len(r.s.fx) :
                 r.s.fx[i].op = "trigger" => fired[r.s.fx[i].node] < MaxFires
            /\ nodes' = r.s.ns
            /\ nextEntity' = r.s.next
            /\ cmds' = r.s.fx \o MarkerCmds(r.st)
            /\ log' = r.s.log
            /\ resets' = r.s.resets
            /\ last' = Last("tick", NoCtx, FALSE, r.st, "None")
            /\ owed' = [n \in NodeIds |->
                          IF \/ \E i \in 1..Len(r.s.log) : r.s.log[i].node = n
                             \/ \E m \in NodeIds : <<m, n>> \in r.s.resets
                            THEN "None" ELSE owed[n]]
            /\ answered' = NoCheck
            /\ UNCHANGED <<tpl, awaiting, finished, treeAlive, panicked, now,
                           alive, handedOut, released, spawnedBy, fired, allOk,
                           timeoutStart, pending, nextTemp, temps, sources>>

\* tick_trees, for the one tree: BehaveTree::tick on the root, then the match on
\* the result.  The commands are queued, not applied.
Tick ==
  /\ Eligible
  /\ ~panicked
  /\ cmds = <<>>
  /\ TickTreesResult(TickNode(TickStart(nodes, nextEntity), Root, now))
  /\ UNCHANGED schedVars

\* an on_behave_status_report whose tree query has no Without<BehaveFinished>
OnBehaveStatusReportUnfiltered(ctx, success, source) ==
  /\ allOk' = (allOk /\ success)
  /\ sources' = [sources EXCEPT ![ctx.task_node] = @ \cup {source}]
  /\ IF ~treeAlive
       THEN /\ last' = Last("report_dropped", ctx, success, "None", nodes[ctx.task_node].task_status)
            /\ UNCHANGED <<nodes, awaiting, alive, released, owed>>
       ELSE LET r == SetNodeResult(nodes, ctx, success) IN
            /\ last' = Last(IF finished # "None" THEN "report_dropped" ELSE "report",
                            ctx, success, "None", nodes[ctx.task_node].task_status)
            /\ awaiting' = FALSE
            /\ nodes' = r.ns
            /\ IF r.task_entity # 0
                 THEN /\ alive' = alive \ {r.task_entity}
                      /\ released' = [released EXCEPT ![r.task_entity] = @ + 1]
                 ELSE UNCHANGED <<alive, released>>
            /\ UNCHANGED owed

\* on_behave_status_report, run for BehaveStatusReport::Success(ctx) (success)
\* or ::Failure(ctx) that source has issued: what it does to the tree, the
\* markers and the task entity
OnBehaveStatusReport(ctx, success, source) ==
  /\ allOk' = (allOk /\ success)
  /\ sources' = [sources EXCEPT ![ctx.task_node] = @ \cup {source}]
  /\ IF ~treeAlive \/ finished # "None"
       THEN /\ last' = Last("report_dropped", ctx, success, "None", nodes[ctx.task_node].task_status)
            /\ UNCHANGED <<nodes, awaiting, alive, released, owed>>
       ELSE LET r == SetNodeResult(nodes, ctx, success) IN
            /\ last' = Last("report", ctx, success, "None", nodes[ctx.task_node].task_status)
            /\ awaiting' = FALSE
            /\ nodes' = r.ns
            /\ IF r.task_entity # 0
                 THEN /\ alive' = alive \ {r.task_entity}
                      /\ released' = [released EXCEPT ![r.task_entity] = @ + 1]
                 ELSE UNCHANGED <<alive, released>>
            /\ IF /\ Kind(ctx.task_node) = "DynamicEntity"
                  /\ ctx.ctx_type = "Entity"
                  /\ nodes[ctx.task_node].task_status = "Started"
                 THEN owed' = [owed EXCEPT ![ctx.task_node] =
                                             IF success THEN "Success" ELSE "Failure"]
                 ELSE UNCHANGED owed

\* a command of tick_trees: the task entity comes to exist with its BehaveCtx
\* and its bundle (on_tick_timeout_added sets the start_time of a BehaveTimeout),
\* the trigger reaches the user's observer with its BehaveCtx, the marker
\* components are inserted
ApplyTreeCommand(c) ==
  /\ last' = Last(c.op, NoCtx, FALSE, "None", "None")
  /\ CASE c.op = "spawn" ->
            /\ spawnedBy' = [spawnedBy EXCEPT ![c.e] = c.node]
            /\ IF released[c.e] = 0
                 THEN /\ alive' = alive \cup {c.e}
                      /\ handedOut' = handedOut \cup {BehaveCtx(c.node, "Entity", c.e)}
                      /\ timeoutStart' = IF HasTimeout(c.node)
                                           THEN [timeoutStart EXCEPT ![c.e] = now]
                                           ELSE timeoutStart
                 ELSE UNCHANGED <<alive, handedOut, timeoutStart>>
            /\ UNCHANGED <<awaiting, finished, fired>>
       [] c.op = "trigger" ->
            /\ fired' = [fired EXCEPT ![c.node] = @ + 1]
            /\ handedOut' = handedOut \cup {BehaveCtx(c.node, "Trigger", 0)}
            /\ UNCHANGED <<awaiting, finished, alive, spawnedBy, timeoutStart>>
       [] c.op = "insert_awaiting" ->
            /\ awaiting' = TRUE
            /\ UNCHANGED <<finished, alive, handedOut, spawnedBy, fired, timeoutStart>>
       [] c.op = "insert_finished_true" ->
            /\ finished' = "true"
            /\ UNCHANGED <<awaiting, alive, handedOut, spawnedBy, fired, timeoutStart>>
       [] c.op = "insert_finished_false" ->
            /\ finished' = "false"
            /\ UNCHANGED <<awaiting, alive, handedOut, spawnedBy, fired, timeoutStart>>
  /\ UNCHANGED <<nodes, released, allOk, owed, sources>>

\* the command buffer of a system is applied at the sync point after it, one
\* command at a time: the commands of tick_trees, and the status reports
\* tick_timeout_components triggers
ApplyCommand ==
  /\ cmds # <<>>
  /\ cmds' = Tail(cmds)
  /\ IF Head(cmds).op \in {"report_true", "report_false"}
       THEN /\ OnBehaveStatusReport(BehaveCtx(Head(cmds).node, "Entity", Head(cmds).e),
                                     Head(cmds).op = "report_true", "timeout")
            /\ UNCHANGED <<finished, handedOut, spawnedBy, fired, timeoutStart>>
       ELSE ApplyTreeCommand(Head(cmds))
  /\ log' = <<>>
  /\ resets' = {}
  /\ answered' = NoCheck
  /\ UNCHANGED <<tpl, treeAlive, panicked, now, nextEntity, pending, nextTemp, temps>>
  /\ UNCHANGED schedVars

\* user code triggers ctx.success() (success) or ctx.failure() on a context the
\* tree handed out, and on_behave_status_report runs
Report(ctx, success) ==
  /\ ~panicked
  /\ ctx \in handedOut
  /\ OnBehaveStatusReport(ctx, success, "task")
  /\ log' = <<>>
  /\ resets' = {}
  /\ answered' = NoCheck
  /\ UNCHANGED <<tpl, finished, treeAlive, panicked, now, cmds, nextEntity,
                 handedOut, spawnedBy, fired, timeoutStart, pending, nextTemp, temps>>
  /\ UNCHANGED schedVars

\* the contexts an earlier BehaveTree of the same entity has handed out: their
\* task_node is an id of that tree, which need not exist in the present one,
\* and their task entity is gone
StaleCtxs ==
  {BehaveCtx(n, t, 0) : n \in 1..(Len(T.kind) + 1), t \in {"Trigger", "Entity"}}

\* a context that does not fit the node it names in the present tree
Malformed(ctx) ==
  IF ctx.task_node \notin NodeIds THEN TRUE
  ELSE CASE Kind(ctx.task_node) = "DynamicEntity" -> ctx.ctx_type # "Entity"
         [] Kind(ctx.task_node) = "TriggerReq" -> ctx.ctx_type # "Trigger"
         [] OTHER -> TRUE

\* on_behave_status_report for a report that carries a stale context which is
\* malformed for the present tree; tree.get_mut(node_id).unwrap() in
\* set_node_result panics when the node id does not exist
StaleReport(ctx, success) ==
  /\ ~panicked
  /\ ctx \in StaleCtxs
  /\ Malformed(ctx)
  /\ IF ctx.task_node \in NodeIds \/ ~treeAlive \/ finished # "None"
       THEN /\ OnBehaveStatusReport(BehaveCtx(IF ctx.task_node \in NodeIds
                                                THEN ctx.task_node ELSE Root,
                                              ctx.ctx_type, 0),
                                    success, "task")
            /\ UNCHANGED panicked
       ELSE /\ panicked' = TRUE
            /\ last' = Last("report_panic", ctx, success, "None", "None")
            /\ UNCHANGED <<allOk, sources, nodes, awaiting, alive, released, owed>>
  /\ log' = <<>>
  /\ resets' = {}
  /\ answered' = NoCheck
  /\ UNCHANGED <<tpl, finished, treeAlive, now, cmds, nextEntity,
                 handedOut, spawnedBy, fired, timeoutStart, pending, nextTemp, temps>>
  /\ UNCHANGED schedVars

\* tick_timeout_components: whether the BehaveTimeout of task entity e is due
TimeoutDue(e) ==
  /\ e \in alive
  /\ HasTimeout(spawnedBy[e])
  /\ now - timeoutStart[e] >= Duration(spawnedBy[e])

\* a timeout that reports the outcome it was not given
TimeoutReportOpposite(e) ==
  [op |-> IF TimeoutOf(spawnedBy[e]).should_succeed THEN "report_false" ELSE "report_true",
   node |-> spawnedBy[e], e |-> e]

\* tick_timeout_components: commands.trigger(ctx.success()) or (ctx.failure())
TimeoutReport(e) ==
  [op |-> IF TimeoutOf(spawnedBy[e]).should_succeed THEN "report_true" ELSE "report_false",
   node |-> spawnedBy[e], e |-> e]

RECURSIVE TimeoutReports(_)
\* tick_timeout_components: the reports of the loop over the query, from entity e on
TimeoutReports(e) ==
  IF e > MaxEntities THEN <<>>
  ELSE (IF TimeoutDue(e) THEN <<TimeoutReport(e)>> ELSE <<>>) \o TimeoutReports(e + 1)

\* tick_timeout_components, when some timeout is due (it does nothing otherwise);
\* it runs before tick_trees, and its reports are applied at the sync point
\* between the two
TickTimeout ==
  /\ ~panicked
  /\ cmds = <<>>
  /\ TimeoutReports(1) # <<>>
  /\ cmds' = TimeoutReports(1)
  /\ last' = Last("tick_timeout", NoCtx, FALSE, "None", "None")
  /\ log' = <<>>
  /\ resets' = {}
  /\ answered' = NoCheck
  /\ UNCHANGED <<tpl, nodes, awaiting, finished, treeAlive, panicked, now, nextEntity,
                 alive, handedOut, released, spawnedBy, fired, allOk, owed,
                 timeoutStart, pending, nextTemp, temps, sources>>
  /\ UNCHANGED schedVars

\* the query of tick_interrupt_components: e has a BehaveInterrupt and a BehaveCtx
Guarded(e) == e \in alive /\ Checks(spawnedBy[e]) # <<>>

\* the Entity of the BehaveTree: the entity of the user, as in TreeEntity
BtEntity == 0

\* a check whose context is made on the entity of the tree
TempIsBtEntity(temp) == BtEntity

\* tick_interrupt_components: commands.spawn_empty().id(), the bt_entity of the
\* context of a check; the ids after those of the task entities
TempEntity(temp) == MaxEntities + temp

\* on_behave_status_report: q_bt.get_mut(ctx.behave_entity()) finds a tree
FindsTree(bt_entity) == bt_entity = BtEntity /\ treeAlive /\ finished = "None"

RECURSIVE ChecksBefore(_)
\* tick_interrupt_components: the temp entities spawned for the entities before e
ChecksBefore(e) ==
  IF e <= 1 THEN 0
  ELSE ChecksBefore(e - 1) + (IF Guarded(e - 1) THEN Len(Checks(spawnedBy[e - 1])) ELSE 0)

\* tick_interrupt_components: the entries it adds to pending_interrupts
NewChecks ==
  UNION { { [temp |-> nextTemp + ChecksBefore(e) + i - 1,
             ctx |-> BehaveCtx(spawnedBy[e], "Entity", e),
             inverted |-> Checks(spawnedBy[e])[i]] : i \in 1..Len(Checks(spawnedBy[e])) }
          : e \in {x \in Entities : Guarded(x)} }

\* tick_interrupt_components, when some entity has a BehaveInterrupt: a temp
\* entity for each trigger, registered as pending, and the trigger fired with a
\* context on the temp entity
TickInterrupt ==
  /\ ~panicked
  /\ cmds = <<>>
  /\ NewChecks # {}
  /\ nextTemp + ChecksBefore(MaxEntities + 1) <= MaxChecks + 1
  /\ pending' = pending \cup NewChecks
  /\ nextTemp' = nextTemp + ChecksBefore(MaxEntities + 1)
  /\ temps' = temps \cup {TempEntity(p.temp) : p \in NewChecks}
  /\ last' = Last("tick_interrupt", NoCtx, FALSE, "None", "None")
  /\ log' = <<>>
  /\ resets' = {}
  /\ answered' = NoCheck
  /\ UNCHANGED <<tpl, nodes, awaiting, finished, treeAlive, panicked, now, cmds, nextEntity,
                 alive, handedOut, released, spawnedBy, fired, allOk, owed,
                 timeoutStart, sources>>
  /\ UNCHANGED schedVars

\* a should_interrupt that takes no notice of the inverted flag
ShouldInterruptPlain(inverted, trigger_succeeded) == trigger_succeeded

\* handle_interrupt_responses: should_interrupt
ShouldInterrupt(inverted, trigger_succeeded) ==
  IF inverted THEN ~trigger_succeeded ELSE trigger_succeeded

\* an entry of pending_interrupts that a response leaves where it is
PendingKept(p) == pending

\* handle_interrupt_responses: pending_interrupts.remove(&temp_entity)
PendingRemove(p) == pending \ {p}

\* handle_interrupt_responses, run for the response (success or failure) to the
\* pending check p: the entry is removed, the temp entity despawned, and
\* original_ctx.success() is triggered if should_interrupt.  The response goes
\* to on_behave_status_report as well, with the context of the check: where it
\* finds a tree on the entity of that context it removes the marker, and
\* set_node_result does nothing for a trigger context on a DynamicEntity node.
InterruptResponse(p, success) ==
  /\ ~panicked
  /\ p \in pending
  /\ pending' = PendingRemove(p)
  /\ temps' = temps \ {TempEntity(p.temp)}
  /\ answered' = [temp |-> p.temp, ctx |-> p.ctx, ok |-> success, inverted |-> p.inverted]
  /\ IF ShouldInterrupt(p.inverted, success)
       THEN OnBehaveStatusReport(p.ctx, TRUE, "interrupt")
       ELSE /\ last' = Last("check_response", p.ctx, success, "None", "None")
            /\ awaiting' = (awaiting /\ ~FindsTree(TempEntity(p.temp)))
            /\ UNCHANGED <<allOk, sources, nodes, alive, released, owed>>
  /\ log' = <<>>
  /\ resets' = {}
  /\ UNCHANGED <<tpl, finished, treeAlive, panicked, now, cmds, nextEntity,
                 handedOut, spawnedBy, fired, timeoutStart, nextTemp>>
  /\ UNCHANGED schedVars

\* the clock advances between two runs of the schedule
AdvanceTime ==
  /\ ~panicked
  /\ cmds = <<>>
  /\ now < MaxTime
  /\ now' = now + 1
  /\ last' = Last("time", NoCtx, FALSE, "None", "None")
  /\ log' = <<>>
  /\ resets' = {}
  /\ answered' = NoCheck
  /\ UNCHANGED <<tpl, nodes, awaiting, finished, treeAlive, panicked, cmds, nextEntity,
                 alive, handedOut, released, spawnedBy, fired, allOk, owed,
                 timeoutStart, pending, nextTemp, temps, sources>>
  /\ UNCHANGED schedVars

\* the entity that holds the tree is despawned between two runs of the schedule;
\* the task entities are its children (set_parent in tick_node) and go with it
Teardown ==
  /\ treeAlive
  /\ ~panicked
  /\ cmds = <<>>
  /\ treeAlive' = FALSE
  /\ alive' = {}
  /\ released' = [e \in Entities |-> IF e \in alive THEN released[e] + 1 ELSE released[e]]
  /\ last' = Last("teardown", NoCtx, FALSE, "None", "None")
  /\ log' = <<>>
  /\ resets' = {}
  /\ answered' = NoCheck
  /\ UNCHANGED <<tpl, nodes, awaiting, finished, panicked, now, cmds, nextEntity,
                 handedOut, spawnedBy, fired, allOk, owed,
                 timeoutStart, pending, nextTemp, temps, sources>>
  /\ UNCHANGED schedVars

Next ==
  \/ Tick
  \/ ApplyCommand
  \/ \E ctx \in handedOut, success \in BOOLEAN : Report(ctx, success)
  \/ AdvanceTime
  \/ Teardown
  \/ TickTimeout
  \/ TickInterrupt
  \/ \E p \in pending, success \in BOOLEAN : InterruptResponse(p, success)

Spec == Init /\ [][Next]_vars

\* The templates in which some task carries a BehaveTimeout.
TimeoutTpls ==
  {t \in 1..Len(Templates) :
     \E n \in 1..Len(Templates[t].kind) : Templates[t].bundle[n].timeout # <<>>}

LiveInit == Init /\ tpl \in TimeoutTpls

\* The schedule runs again and again: in each run the clock has advanced,
\* tick_timeout_components and tick_trees run (BehavePlugin::build puts both in
\* the schedule) and the command buffers are applied at the sync points.  What
\* user code does (reports, responses to checks, despawning the tree) and
\* tick_interrupt_components, which only asks user code, get no fairness.
\* ENABLED <<TickTreesResult(r)>>_vars: the step is within the bounds and it
\* changes the state
TickTreesEnabled(r) ==
  \/ r.st = "Panic"
  \/ /\ r.s.next <= MaxEntities + 1
     /\ \A i \in 1..Len(r.s.fx) :
          r.s.fx[i].op = "trigger" => fired[r.s.fx[i].node] < MaxFires
     /\ \/ r.s.ns # nodes
        \/ r.s.fx \o MarkerCmds(r.st) # <<>>
        \/ r.s.log # log
        \/ r.s.resets # resets
        \/ last # Last("tick", NoCtx, FALSE, r.st, "None")
        \/ answered # NoCheck
        \/ \E n \in NodeIds :
             /\ owed[n] # "None"
             /\ \/ \E i \in 1..Len(r.s.log) : r.s.log[i].node = n
                \/ \E m \in NodeIds : <<m, n>> \in r.s.resets

\* ENABLED <<Tick>>_vars
TickEnabled ==
  /\ Eligible
  /\ ~panicked
  /\ cmds = <<>>
  /\ TickTreesEnabled(TickNode(TickStart(nodes, nextEntity), Root, now))

\* WF_vars(Tick), with its ENABLED computed by TickEnabled
TickFair == []<>(~TickEnabled) \/ []<><<Tick>>_vars

Fairness ==
  /\ WF_vars(AdvanceTime)
  /\ WF_vars(TickTimeout)
  /\ WF_vars(ApplyCommand)
  /\ TickFair

LiveSpec == LiveInit /\ [][Next]_vars /\ Fairness

(***************************************************************************)
(* Type correctness.                                                       *)
(***************************************************************************)
Statuses == {"None", "Success", "Failure", "Running", "RunningTimer", "AwaitingTrigger",
             "PendingReset"}

TypeOK ==
  /\ tpl \in 1..Len(Templates)
  /\ \A n \in NodeIds :
       /\ nodes[n].status \in Statuses
       /\ nodes[n].task_status \in {"NA", "NotTriggered", "Triggered", "NotStarted",
                                    "Started", "Complete"}
       /\ nodes[n].task_entity \in 0..MaxEntities
  /\ nextEntity \in 1..(MaxEntities + 1)
  /\ alive \subseteq Entities
  /\ now \in 0..MaxTime

(***************************************************************************)
(* Reading the record of the last tick.                                    *)
(***************************************************************************)
AfterTick == last.op = "tick" /\ last.st # "Panic"

Ticked(n) == \E i \in 1..Len(log) : log[i].node = n

Pos(n) == CHOOSE i \in 1..Len(log) : log[i].node = n

\* the status the call of tick_node on n returned
Returned(n) == log[Pos(n)].st

\* n was ticked and got past the short circuit
Evaluated(n) == Ticked(n) /\ ~log[Pos(n)].sc

\* nothing in the subtree of n was ticked in the last tick, has a status or
\* has a command in the queue
Untouched(n) ==
  \A m \in Subtree(n) :
    /\ ~Ticked(m)
    /\ nodes[m].status = "None"
    /\ \A i \in 1..Len(cmds) : cmds[i].node # m

NodesOfKind(kind) == {n \in NodeIds : Kind(n) = kind}

\* the status tick_node returns for node n of a tree whose nodes are all new
TickOfNew(n) == TickNode(TickStart([m \in NodeIds |-> BehaveNodeNew(Kind(m))], 1), n, 0).st

\* the children of a Sequence (stop = "Failure") or Fallback (stop = "Success")
\* that was evaluated in the last tick were ticked left to right up to the first
\* one that did not return the status that advances (go); that child's status
\* is what the node returned
FlowRule(n, go) ==
  LET cs == Children(n) IN
  IF cs = <<>> THEN Returned(n) = "Success"
  ELSE \E k \in 1..Len(cs) :
         /\ \A j \in 1..(k - 1) : Ticked(cs[j]) /\ Returned(cs[j]) = go
         /\ \A j \in 1..(k - 1) : Pos(cs[j]) < Pos(cs[j + 1])
         /\ Ticked(cs[k])
         /\ Pos(cs[k]) < Pos(n)
         /\ Returned(cs[k]) = go => k = Len(cs)
         /\ Returned(n) = Returned(cs[k])
         /\ nodes[n].status = Returned(n)
         /\ \A j \in (k + 1)..Len(cs) : Untouched(cs[j])

(***************************************************************************)
(* C1.  Terminal short circuit: once the stored status of a node is        *)
(* Success or Failure, no step changes that status, and a tick leaves the  *)
(* whole node as it is, queues no command for it and, where it ticks the   *)
(* node, gets that same status back -- unless the tick reset the node      *)
(* because the node itself or one of its ancestors was PendingReset.       *)
(***************************************************************************)
Terminal(st) == st \in {"Success", "Failure"}

ResetFromAbove(n, rs) ==
  \E r \in NodeIds : (r = n \/ IsAncestor(r, n)) /\ <<r, n>> \in rs

TerminalShortCircuit ==
  [][ \A n \in NodeIds :
        (Terminal(nodes[n].status) /\ ~ResetFromAbove(n, resets')) =>
          /\ nodes'[n].status = nodes[n].status
          /\ last'.op = "tick" =>
               /\ nodes'[n] = nodes[n]
               /\ \A i \in 1..Len(cmds') : cmds'[i].node # n
               /\ \A i \in 1..Len(log') :
                    log'[i].node = n => log'[i].st = nodes[n].status ]_vars

\* a tick has ticked a node that already had a result, after a late report
\* had overwritten the result stored for that leaf
TerminalShortCircuitWitness ==
  /\ AfterTick
  /\ \E n \in NodeIds :
       /\ Ticked(n) /\ log[Pos(n)].sc
       /\ nodes[n].task_status = "Complete"
       /\ nodes[n].status = (IF nodes[n].task_ok THEN "Failure" ELSE "Success")

(***************************************************************************)
(* C2.  Sequence: the children are ticked strictly left to right; the      *)
(* Sequence returns Success iff every child returned Success; the first    *)
(* child that returns Failure or a non-terminal status ends the tick of    *)
(* the Sequence with that status, and no child to its right is ticked,     *)
(* fired or spawned; a Sequence with no children returns Success: that is  *)
(* what tick_node returns for it, though BehaveTree::new builds no tree    *)
(* with such a node, so no tick of a running tree gets there.              *)
(***************************************************************************)
SequenceRule ==
  /\ \A n \in NodesOfKind("Sequence") : Children(n) = <<>> => TickOfNew(n) = "Success"
  /\ AfterTick =>
    \A n \in NodesOfKind("Sequence") :
      /\ Evaluated(n) =>
           /\ FlowRule(n, "Success")
           /\ Returned(n) = "Success" <=>
                \A j \in 1..Len(Children(n)) :
                  Ticked(Children(n)[j]) /\ Returned(Children(n)[j]) = "Success"
      /\ nodes[n].status = "Failure" =>
           \E k \in 1..Len(Children(n)) :
             /\ nodes[Children(n)[k]].status = "Failure"
             /\ \A j \in (k + 1)..Len(Children(n)) : Untouched(Children(n)[j])

\* a Sequence failed at a child that is not its last one, after an earlier
\* child had succeeded
SequenceRuleWitness ==
  /\ AfterTick
  /\ \E n \in NodesOfKind("Sequence") :
       /\ Evaluated(n)
       /\ Len(Children(n)) = 3
       /\ Returned(n) = "Failure"
       /\ Returned(Children(n)[1]) = "Success"
       /\ Returned(Children(n)[2]) = "Failure"

(***************************************************************************)
(* C3.  Fallback: the children are ticked left to right; the Fallback      *)
(* returns Failure iff every child returned Failure (it has at least one); *)
(* the first child that returns Success or a non-terminal status ends the  *)
(* tick of the Fallback with that status, and no child to its right is     *)
(* ticked; a Fallback with no children returns Success (what tick_node     *)
(* returns for it; BehaveTree::new builds no tree with such a node).       *)
(***************************************************************************)
FallbackRule ==
  /\ \A n \in NodesOfKind("Fallback") : Children(n) = <<>> => TickOfNew(n) = "Success"
  /\ AfterTick =>
    \A n \in NodesOfKind("Fallback") :
      /\ Evaluated(n) =>
           /\ FlowRule(n, "Failure")
           /\ Children(n) # <<>> =>
                (Returned(n) = "Failure" <=>
                   \A j \in 1..Len(Children(n)) :
                     Ticked(Children(n)[j]) /\ Returned(Children(n)[j]) = "Failure")
      /\ nodes[n].status = "Success" =>
           \E k \in 1..Len(Children(n)) :
             /\ nodes[Children(n)[k]].status = "Success"
             /\ \A j \in (k + 1)..Len(Children(n)) : Untouched(Children(n)[j])

\* a Fallback succeeded at a child that is not its last one, after an earlier
\* child had failed
FallbackRuleWitness ==
  /\ AfterTick
  /\ \E n \in NodesOfKind("Fallback") :
       /\ Evaluated(n)
       /\ Len(Children(n)) = 3
       /\ Returned(n) = "Success"
       /\ Returned(Children(n)[1]) = "Failure"
       /\ Returned(Children(n)[2]) = "Success"

(***************************************************************************)
(* C4.  Invert: a tick of an Invert node returns Failure when its child    *)
(* returned Success, Success when its child returned Failure, and the      *)
(* child's Running, RunningTimer or AwaitingTrigger unchanged; the status  *)
(* returned is the status the Invert node stores.                          *)
(***************************************************************************)
InvertRule ==
  AfterTick =>
    \A n \in NodesOfKind("Invert") :
      Evaluated(n) =>
        LET c == FirstChild(n) IN
        /\ Ticked(c)
        /\ Pos(c) < Pos(n)
        /\ Returned(c) = "Success" => Returned(n) = "Failure"
        /\ Returned(c) = "Failure" => Returned(n) = "Success"
        /\ Returned(c) \in {"Running", "RunningTimer", "AwaitingTrigger"} =>
             Returned(n) = Returned(c)
        /\ nodes[n].status = Returned(n)

\* an Invert node has turned the Success of its child into Failure
InvertRuleWitness ==
  /\ AfterTick
  /\ \E n \in NodesOfKind("Invert") :
       /\ Evaluated(n)
       /\ Returned(FirstChild(n)) = "Success"
       /\ Returned(n) = "Failure"
       /\ nodes[n].status = "Failure"

(***************************************************************************)
(* C5.  IfThen: when the condition returns Success the IfThen returns and  *)
(* stores what the tick of its 'then' child returned and the 'else' child  *)
(* is not ticked; when the condition returns Failure and there is an       *)
(* 'else' child the IfThen returns and stores what the tick of 'else'      *)
(* returned and 'then' is not ticked; when the condition returns Failure   *)
(* and there is no 'else' child the IfThen is Failure; while the condition *)
(* is not terminal neither branch is ticked and the condition's status is  *)
(* returned.                                                               *)
(***************************************************************************)
IfThenRule ==
  AfterTick =>
    \A n \in NodesOfKind("IfThen") :
      Evaluated(n) =>
        LET cs == Children(n)
            c == cs[1]
            t == cs[2]
            hasElse == Len(cs) = 3
        IN /\ Ticked(c)
           /\ nodes[n].status = Returned(n)
           /\ Returned(c) = "Success" =>
                /\ Ticked(t) /\ Pos(c) < Pos(t)
                /\ Returned(n) = Returned(t)
                /\ hasElse => Untouched(cs[3])
           /\ (Returned(c) = "Failure" /\ hasElse) =>
                /\ Ticked(cs[3]) /\ Pos(c) < Pos(cs[3])
                /\ Returned(n) = Returned(cs[3])
                /\ Untouched(t)
           /\ (Returned(c) = "Failure" /\ ~hasElse) =>
                /\ Returned(n) = "Failure"
                /\ Untouched(t)
           /\ ~Terminal(Returned(c)) =>
                /\ Returned(n) = Returned(c)
                /\ Untouched(t)
                /\ hasElse => Untouched(cs[3])

\* the condition of an IfThen with three children failed and the IfThen returned
\* what its 'else' child returned
IfThenRuleWitness ==
  /\ AfterTick
  /\ \E n \in NodesOfKind("IfThen") :
       /\ Evaluated(n)
       /\ Len(Children(n)) = 3
       /\ Returned(Children(n)[1]) = "Failure"
       /\ Ticked(Children(n)[3])
       /\ Returned(n) = Returned(Children(n)[3])

\* the condition of an IfThen with two children failed
IfThenNoElseWitness ==
  /\ AfterTick
  /\ \E n \in NodesOfKind("IfThen") :
       /\ Evaluated(n)
       /\ Len(Children(n)) = 2
       /\ Returned(Children(n)[1]) = "Failure"

(***************************************************************************)
(* C6.  While: in the tick in which the condition returns Failure the      *)
(* While returns and stores Failure and its body is not ticked; in a tick  *)
(* in which the condition and the body (if there is one) return Success    *)
(* the While does not become terminal: it stores PendingReset, and the     *)
(* next tick that reaches the While resets its whole subtree (as part of   *)
(* the reset of the While or of an ancestor that stored the PendingReset)  *)
(* and evaluates the condition, then the body, both anew.                  *)
(***************************************************************************)
WhileTickRule ==
  AfterTick =>
    \A n \in NodesOfKind("While") :
      Evaluated(n) =>
        LET cs == Children(n)
            c == cs[1]
            hasBody == Len(cs) = 2
        IN /\ Ticked(c)
           /\ nodes[n].status = Returned(n)
           /\ Returned(c) = "Failure" =>
                /\ Returned(n) = "Failure"
                /\ hasBody => Untouched(cs[2])
           /\ (Returned(c) = "Success" /\ hasBody) =>
                /\ Ticked(cs[2]) /\ Pos(c) < Pos(cs[2])
           /\ (Returned(c) = "Success" /\ (hasBody => Returned(cs[2]) = "Success")) =>
                Returned(n) = "PendingReset"

\* the tick reset node m (rs is its set of resets)
WasReset(m, rs) == \E r \in NodeIds : <<r, m>> \in rs

WhileLoopStep ==
  \A n \in NodesOfKind("While") :
    (nodes[n].status = "PendingReset" /\ last'.op = "tick" /\ last'.st # "Panic"
       /\ \E i \in 1..Len(log') : log'[i].node = n) =>
      /\ \A m \in Subtree(n) : WasReset(m, resets')
      /\ \E i \in 1..Len(log') : log'[i].node = Children(n)[1] /\ ~log'[i].sc
      /\ \A i \in 1..Len(log') : log'[i].node \in Subtree(n) => ~log'[i].sc

WhileRule == [](WhileTickRule) /\ [][WhileLoopStep]_vars

\* a While with a body has gone round a second time: its body, a trigger leaf,
\* was fired in two iterations, succeeded again, and the While is PendingReset again
WhileRuleWitness ==
  /\ AfterTick
  /\ \E n \in NodesOfKind("While") :
       /\ Len(Children(n)) = 2
       /\ Kind(Children(n)[2]) = "TriggerReq"
       /\ fired[Children(n)[2]] >= 2
       /\ Evaluated(Children(n)[2])
       /\ Returned(Children(n)[2]) = "Success"
       /\ nodes[n].status = "PendingReset"

\* the condition of a While failed
WhileFailsWitness ==
  /\ AfterTick
  /\ \E n \in NodesOfKind("While") :
       /\ Evaluated(n)
       /\ Len(Children(n)) = 2
       /\ Returned(Children(n)[1]) = "Failure"
       /\ nodes[n].status = "Failure"

(***************************************************************************)
(* C7.  Forever never terminates: the stored status of a Forever node is   *)
(* never Success or Failure, no tick of a Forever node returns Success or  *)
(* Failure, and a tree whose root is a Forever node is never marked        *)
(* finished, nor is that marker queued.                                    *)
(***************************************************************************)
ForeverRule ==
  /\ \A n \in NodesOfKind("Forever") :
       /\ ~Terminal(nodes[n].status)
       /\ (AfterTick /\ Ticked(n)) => ~Terminal(Returned(n))
  /\ Kind(Root) = "Forever" =>
       /\ finished = "None"
       /\ \A i \in 1..Len(cmds) :
            cmds[i].op \notin {"insert_finished_true", "insert_finished_false"}

\* the child of a Forever root has resolved after the Forever had already
\* looped: the tick reset the Forever and its child resolved again
ForeverRuleWitness ==
  /\ AfterTick
  /\ Kind(Root) = "Forever"
  /\ <<Root, Root>> \in resets
  /\ Terminal(nodes[FirstChild(Root)].status)
  /\ nodes[Root].status = "PendingReset"

(***************************************************************************)
(* C8.  A loop-back of a While resets only the subtree of the While: in    *)
(* the tree of test_while_node, Forever{Sequence{T1, While{AlwaysSucceed,  *)
(* T2}}}, with every trigger answered with success, T1 is never fired a    *)
(* second time, however often the While loops and fires T2 again.          *)
(***************************************************************************)
WhileLoopKeepsEarlierSibling ==
  (tpl = WhileTestTpl /\ allOk) => fired[RunAssertNode] <= 1

(***************************************************************************)
(* C9.  Completion of a spawned task: a status report with outcome b       *)
(* delivered for a DynamicEntity leaf in Started state stores Complete(b)  *)
(* in the leaf and clears the suspension marker of the tree, and the next  *)
(* tick of the tree ticks that leaf and gets Success from it if b is true  *)
(* and Failure if b is false.                                              *)
(***************************************************************************)
ReportCompletesStartedTask ==
  (/\ last'.op = "report"
   /\ last'.ctx.ctx_type = "Entity"
   /\ nodes[last'.ctx.task_node].task_status = "Started") =>
     /\ nodes'[last'.ctx.task_node].task_status = "Complete"
     /\ nodes'[last'.ctx.task_node].task_ok = last'.ok
     /\ awaiting' = FALSE

NextTickReturnsOutcome ==
  (last'.op = "tick" /\ last'.st # "Panic") =>
     \A n \in NodeIds :
       owed[n] # "None" =>
         \E i \in 1..Len(log') : log'[i].node = n /\ log'[i].st = owed[n]

CompletionOfSpawnedTask ==
  [][ReportCompletesStartedTask /\ NextTickReturnsOutcome]_vars

(***************************************************************************)
(* C10.  Exactly-once release: no task entity has more than one despawn    *)
(* issued for it; a task entity exists only while the leaf that spawned it *)
(* holds it in Started state and the tree exists, so none is left once its *)
(* leaf has completed or the tree was torn down; and a report for a leaf   *)
(* that is not in Started state issues no despawn.                         *)
(***************************************************************************)
ReleasedAtMostOnce ==
  \A e \in Entities :
    /\ released[e] <= 1
    /\ released[e] = 1 => e \notin alive
    /\ e \in alive =>
         /\ treeAlive
         /\ spawnedBy[e] # 0
         /\ nodes[spawnedBy[e]].task_status = "Started"
         /\ nodes[spawnedBy[e]].task_entity = e
    /\ (spawnedBy[e] # 0 /\ e \notin alive) => released[e] = 1

LaterReportReleasesNothing ==
  (last'.op \in {"report", "report_dropped"}
     /\ nodes[last'.ctx.task_node].task_status # "Started") =>
       released' = released

ExactlyOnceRelease == [](ReleasedAtMostOnce) /\ [][LaterReportReleasesNothing]_vars

\* a second report was delivered for a leaf whose task entity the first report
\* had released
ExactlyOnceReleaseWitness ==
  /\ last.op = "report"
  /\ last.was = "Complete"
  /\ last.ctx.ctx_type = "Entity"
  /\ released[last.ctx.task_entity] = 1
  /\ spawnedBy[last.ctx.task_entity] = last.ctx.task_node

\* the tree was torn down while a task entity existed
TeardownReleaseWitness ==
  /\ last.op = "teardown"
  /\ \E e \in Entities : released[e] = 1 /\ nodes[spawnedBy[e]].task_status = "Started"

(***************************************************************************)
(* C11.  One-tick grace window: the tick that starts a DynamicEntity leaf  *)
(* returns Running for the leaf and does not return AwaitingTrigger for    *)
(* the tree; the next tick that finds the leaf completed by a report       *)
(* returns Success or Failure for it without the leaf ever having been     *)
(* AwaitingTrigger; the next tick that finds it still Started makes it     *)
(* AwaitingTrigger and returns AwaitingTrigger for the tree, which queues  *)
(* the suspension marker; and a leaf becomes AwaitingTrigger in no other   *)
(* way.                                                                    *)
(***************************************************************************)
\* the log entry of the call of tick_node on n in the tick this step made
Call(n) == log'[CHOOSE i \in 1..Len(log') : log'[i].node = n]

Called(n) == \E i \in 1..Len(log') : log'[i].node = n

GraceWindowStep ==
  (last'.op = "tick" /\ last'.st # "Panic") =>
    \A n \in NodesOfKind("DynamicEntity") :
      /\ (\E i \in 1..Len(cmds') : cmds'[i].op = "spawn" /\ cmds'[i].node = n) =>
           /\ Called(n) /\ Call(n).st = "Running"
           /\ nodes'[n].task_status = "Started" /\ nodes'[n].status = "Running"
           /\ last'.st # "AwaitingTrigger"
      /\ (nodes[n].status = "Running" /\ nodes[n].task_status = "Complete") =>
           /\ Called(n) /\ Terminal(Call(n).st)
           /\ nodes'[n].status = Call(n).st
      /\ (nodes[n].status = "Running" /\ nodes[n].task_status = "Started") =>
           /\ Called(n) /\ Call(n).st = "AwaitingTrigger"
           /\ nodes'[n].status = "AwaitingTrigger"
           /\ last'.st = "AwaitingTrigger"
           /\ cmds'[Len(cmds')].op = "insert_awaiting"
      /\ (nodes'[n].status = "AwaitingTrigger" /\ nodes[n].status # "AwaitingTrigger") =>
           nodes[n].status = "Running" /\ nodes[n].task_status = "Started"

GraceWindow == [][GraceWindowStep]_vars

\* a tick found a leaf that a report had completed during its grace tick and
\* returned the result for it
GraceWindowWitness ==
  /\ AfterTick
  /\ \E n \in NodesOfKind("DynamicEntity") :
       /\ Evaluated(n)
       /\ log[Pos(n)].was = "Running" /\ log[Pos(n)].task_was = "Complete"
       /\ Terminal(Returned(n))

(***************************************************************************)
(* C12.  End-to-end scenario on Sequence{Wait(1.0), Spawn(T)}: the tick at *)
(* t = 0 arms the Wait and returns Running; the tick at t = 1.5 makes the  *)
(* Wait succeed, starts T in the same tick and returns Running; a tick     *)
(* that finds T still Started returns AwaitingTrigger; after a report for  *)
(* T with outcome true (and none with outcome false), the next tick        *)
(* returns Success for T, for the Sequence and for the tree and queues     *)
(* BehaveFinished(true), which the tree entity then carries.               *)
(***************************************************************************)
EndToEndTpl == 13
WaitNode == 2
SpawnNode == 3

EndToEndStep ==
  (tpl = EndToEndTpl /\ last'.op = "tick") =>
     /\ (now = 0 /\ nodes[WaitNode].start_time = -1) =>
          /\ last'.st = "Running"
          /\ nodes'[WaitNode].start_time = 0
          /\ nodes'[SpawnNode] = nodes[SpawnNode]
     /\ (now = 3 /\ nodes[WaitNode].start_time = 0 /\ nodes[WaitNode].status = "Running") =>
          /\ Call(WaitNode).st = "Success"
          /\ Call(SpawnNode).st = "Running"
          /\ nodes'[SpawnNode].task_status = "Started"
          /\ cmds' = << [op |-> "spawn", node |-> SpawnNode, e |-> nextEntity] >>
          /\ last'.st = "Running"
     /\ (nodes[SpawnNode].status = "Running" /\ nodes[SpawnNode].task_status = "Started") =>
          last'.st = "AwaitingTrigger"
     /\ (owed[SpawnNode] = "Success" /\ allOk) =>
          /\ Call(SpawnNode).st = "Success"
          /\ Call(Root).st = "Success"
          /\ last'.st = "Success"
          /\ cmds' = << [op |-> "insert_finished_true", node |-> 0, e |-> 0] >>

EndToEndFinished ==
  (tpl = EndToEndTpl /\ allOk /\ nodes[Root].status = "Success" /\ cmds = <<>>) =>
     finished = "true"

EndToEnd == [](EndToEndFinished) /\ [][EndToEndStep]_vars

\* the scenario has run to its end: the Wait was armed at t = 0, T was reported
\* successful and the tree carries BehaveFinished(true)
EndToEndWitness ==
  /\ tpl = EndToEndTpl
  /\ nodes[WaitNode].start_time = 0
  /\ now = 3
  /\ allOk
  /\ nodes[SpawnNode].status = "Success"
  /\ finished = "true"

(***************************************************************************)
(* C13.  Scheduling eligibility: a step ticks the tree only if the tree    *)
(* entity carries neither BehaveAwaitingTrigger nor BehaveFinished; the    *)
(* suspension marker goes away only by a status report; once the tree      *)
(* carries BehaveFinished no step changes a node or the marker.            *)
(***************************************************************************)
SchedulingEligibilityStep ==
  /\ last'.op = "tick" => (treeAlive /\ ~awaiting /\ finished = "None")
  /\ (awaiting /\ ~awaiting') => last'.op = "report"
  /\ finished # "None" => (nodes' = nodes /\ finished' = finished)

SchedulingEligibility == [][SchedulingEligibilityStep]_vars

\* a status report reached a tree that carries BehaveFinished
SchedulingEligibilityWitness ==
  /\ treeAlive
  /\ finished # "None"
  /\ last.op = "report_dropped"


(***************************************************************************)
(* C14  Root status mapping.  A tick of the whole tree returns the status  *)
(* of the root; it queues the insertion of BehaveFinished(true) iff that   *)
(* status is Success, of BehaveFinished(false) iff it is Failure, of       *)
(* BehaveAwaitingTrigger iff it is AwaitingTrigger, and no marker at all   *)
(* for Running, RunningTimer and PendingReset, in which case the tree is   *)
(* still eligible after the tick.  The markers come to the tree entity     *)
(* only by these insertions, each setting the marker it names.             *)
(***************************************************************************)
IsMarker(c) == c.op \in {"insert_awaiting", "insert_finished_true", "insert_finished_false"}

MarkersQueued == SelectSeq(cmds', IsMarker)

RootStatusMappingStep ==
  /\ (last'.op = "tick" /\ last'.st # "Panic") =>
       /\ log'[Len(log')].node = Root
       /\ log'[Len(log')].st = last'.st
       /\ Len(MarkersQueued) <= 1
       /\ (\E i \in 1..Len(cmds') : cmds'[i].op = "insert_finished_true") <=> last'.st = "Success"
       /\ (\E i \in 1..Len(cmds') : cmds'[i].op = "insert_finished_false") <=> last'.st = "Failure"
       /\ (\E i \in 1..Len(cmds') : cmds'[i].op = "insert_awaiting") <=> last'.st = "AwaitingTrigger"
       /\ MarkersQueued # <<>> => IsMarker(cmds'[Len(cmds')])
       /\ last'.st \in {"Running", "RunningTimer", "PendingReset"} =>
            (MarkersQueued = <<>> /\ Eligible')
  /\ finished' # finished =>
       /\ finished = "None"
       /\ cmds # <<>>
       /\ Head(cmds).op = (IF finished' = "true" THEN "insert_finished_true"
                                                ELSE "insert_finished_false")
  /\ (awaiting' /\ ~awaiting) => (cmds # <<>> /\ Head(cmds).op = "insert_awaiting")
  /\ (cmds # <<>> /\ cmds' = Tail(cmds)) =>
       /\ Head(cmds).op = "insert_finished_true" => finished' = "true"
       /\ Head(cmds).op = "insert_finished_false" => finished' = "false"
       /\ Head(cmds).op = "insert_awaiting" => awaiting'

RootStatusMapping == [][RootStatusMappingStep]_vars

\* the root returned Failure and the tree entity now carries BehaveFinished(false)
RootStatusMappingWitness ==
  /\ last.op = "insert_finished_false"
  /\ finished = "false"
  /\ nodes[Root].status = "Failure"
  /\ ~awaiting


(***************************************************************************)
(* C19  Validation is exact.  BehaveTree::verify is true iff every node of *)
(* the template has a number of children in the range of its kind: Invert  *)
(* exactly 1; Sequence, Fallback and Forever at least 1; While 1 or 2;     *)
(* IfThen 2 or 3; the task nodes exactly 0.  BehaveTree::new builds a tree *)
(* only when verify is true: on a template that fails, it panics, and      *)
(* nothing is ever ticked or reported.                                     *)
(***************************************************************************)
NumChildren(n) == Cardinality({m \in NodeIds : Templates[tpl].parent[m] = n})

InRange(n) ==
  LET k == Templates[tpl].kind[n]
      c == NumChildren(n)
  IN CASE k = "Invert" -> c = 1
       [] k \in {"Sequence", "Fallback", "Forever"} -> c >= 1
       [] k = "While" -> c \in {1, 2}
       [] k = "IfThen" -> c \in {2, 3}
       [] k \in {"Wait", "DynamicEntity", "TriggerReq", "AlwaysSucceed", "AlwaysFail"} -> c = 0

Offenders == {n \in NodeIds : ~PermittedChildren(Kind(n), Len(Children(n)))}

ValidationReportsAll ==
  /\ Len(VerifyErrors(Root)) = Cardinality(Offenders)
  /\ \A n \in Offenders : \E i \in 1..Len(VerifyErrors(Root)) : VerifyErrors(Root)[i] = n

\* what verify does log: one error, for the first offending node in the order
\* of the walk, and nothing when there is none
ValidationReportsFirst ==
  /\ Len(VerifyErrors(Root)) = (IF Offenders = {} THEN 0 ELSE 1)
  /\ \A i \in 1..Len(VerifyErrors(Root)) :
       /\ VerifyErrors(Root)[i] \in Offenders
       /\ \A m \in Offenders : VerifyErrors(Root)[i] <= m

ValidationReportsFirstWitness ==
  /\ Cardinality(Offenders) >= 2
  /\ panicked


(***************************************************************************)
(* C16  Interrupt inversion rule.  When the response r to a pending check  *)
(* registered with flag inv is handled, a Success report on the context of *)
(* the guarded task is issued iff (r is success) # inv; otherwise nothing  *)
(* is reported and nothing of the tree changes.  by and or register        *)
(* inv = FALSE, by_not and or_not inv = TRUE.  Each check is judged on its *)
(* own, so with several checks one whose result says so is enough.         *)
(***************************************************************************)
Interrupts(check) == (check.ok # check.inverted)

InterruptInversionStep ==
  /\ answered'.temp # 0 =>
       /\ \E p \in pending :
            /\ p.temp = answered'.temp
            /\ p.ctx = answered'.ctx
            /\ p.inverted = answered'.inverted
            /\ \E i \in 1..Len(Checks(p.ctx.task_node)) :
                 Checks(p.ctx.task_node)[i] = p.inverted
            /\ pending' = pending \ {p}
       /\ Interrupts(answered') =>
            /\ last'.op \in {"report", "report_dropped"}
            /\ last'.ctx = answered'.ctx
            /\ last'.ok
            /\ "interrupt" \in sources'[answered'.ctx.task_node]
            /\ last'.op = "report" =>
                 /\ nodes'[answered'.ctx.task_node].task_status = "Complete"
                 /\ nodes'[answered'.ctx.task_node].task_ok
                 /\ ~awaiting'
       /\ ~Interrupts(answered') =>
            /\ last'.op = "check_response"
            /\ UNCHANGED <<nodes, awaiting, finished, alive, released, sources, allOk, cmds>>
  /\ \A n \in NodeIds :
       ("interrupt" \in sources'[n] /\ "interrupt" \notin sources[n]) =>
         (answered'.temp # 0 /\ Interrupts(answered') /\ answered'.ctx.task_node = n)
  /\ By = <<FALSE>> /\ ByNot = <<TRUE>>
  /\ \A b \in {By, ByNot} : Or(b) = b \o <<FALSE>> /\ OrNot(b) = b \o <<TRUE>>

IsReport(c) == c.op \in {"report_true", "report_false"}

TimeoutNeverEarlyStep ==
  last'.op = "tick_timeout" =>
    \A i \in 1..Len(cmds') :
      (IsReport(cmds'[i]) /\ TimeoutOf(cmds'[i].node).from_secs) =>
        now - timeoutStart[cmds'[i].e] >= TimeoutOf(cmds'[i].node).secs

TimeoutNeverEarly == [][TimeoutNeverEarlyStep]_vars


(***************************************************************************)
(* C17  Timeout eventually forces the configured outcome.  A task entity   *)
(* that carries a timeout of D seconds with outcome b, whose tree exists   *)
(* and for whose leaf neither the task itself nor an interrupt ever        *)
(* reports, gets a report of outcome b from tick_timeout_components, and   *)
(* its leaf becomes Success if b and Failure if not.  (The clock of the    *)
(* model stops at MaxTime: the property is about the timeouts whose D      *)
(* seconds end by then.)                                                   *)
(***************************************************************************)
StatusOf(b) == IF b THEN "Success" ELSE "Failure"

TimeoutRunning(e) ==
  /\ e \in alive
  /\ HasTimeout(spawnedBy[e])
  /\ timeoutStart[e] + TimeoutOf(spawnedBy[e]).secs <= MaxTime

TimeoutForced(e) ==
  /\ spawnedBy[e] # 0
  /\ \/ /\ "timeout" \in sources[spawnedBy[e]]
        /\ nodes[spawnedBy[e]].status = StatusOf(TimeoutOf(spawnedBy[e]).should_succeed)
     \/ ~treeAlive
     \/ "task" \in sources[spawnedBy[e]]
     \/ "interrupt" \in sources[spawnedBy[e]]

TimeoutOutcomeStep ==
  last'.op = "tick_timeout" =>
    /\ cmds' # <<>>
    /\ \A i \in 1..Len(cmds') :
         /\ cmds'[i].e \in alive
         /\ cmds'[i].node = spawnedBy[cmds'[i].e]
         /\ cmds'[i].op = (IF TimeoutOf(cmds'[i].node).should_succeed
                             THEN "report_true" ELSE "report_false")
    /\ \A e \in Entities :
         (TimeoutRunning(e) /\ now - timeoutStart[e] >= TimeoutOf(spawnedBy[e]).secs) =>
           \E i \in 1..Len(cmds') : cmds'[i].e = e

TimeoutForces ==
  /\ [][TimeoutOutcomeStep]_vars
  /\ \A e \in Entities : TimeoutRunning(e) ~> TimeoutForced(e)

\* the leaf of a task with a timeout of outcome false is Failure, and the only
\* report there ever was for it is the one of the timeout
TimeoutForcesWitness ==
  \E n \in NodeIds :
    /\ Kind(n) = "DynamicEntity"
    /\ HasTimeout(n)
    /\ ~TimeoutOf(n).should_succeed
    /\ sources[n] = {"timeout"}
    /\ nodes[n].status = "Failure"
    /\ treeAlive


(***************************************************************************)
(* C15  Interrupt pre-empts the task.  For a running spawned task guarded  *)
(* by BehaveInterrupt::by(C): if C reports success before the task itself  *)
(* reports, a Success report is issued on the context of the task, the     *)
(* task entity is despawned and the leaf returns Success on the next tick  *)
(* of the tree, whether or not the task also carries a BehaveTimeout of    *)
(* outcome false that has not fired; and where neither an interrupt nor a  *)
(* timeout reports, the reports of the task itself alone set the result of *)
(* the leaf.                                                               *)
(***************************************************************************)
InterruptIssuesSuccess ==
  (/\ answered'.temp # 0
   /\ ~answered'.inverted
   /\ answered'.ok
   /\ treeAlive
   /\ finished = "None"
   /\ nodes[answered'.ctx.task_node].task_status = "Started"
   /\ nodes[answered'.ctx.task_node].task_entity = answered'.ctx.task_entity
   /\ "task" \notin sources[answered'.ctx.task_node]) =>
     /\ last'.op = "report"
     /\ last'.ctx = answered'.ctx
     /\ last'.ok
     /\ answered'.ctx.task_entity \in alive
     /\ answered'.ctx.task_entity \notin alive'
     /\ released'[answered'.ctx.task_entity] = 1
     /\ nodes'[answered'.ctx.task_node].task_status = "Complete"
     /\ nodes'[answered'.ctx.task_node].task_ok
     /\ owed'[answered'.ctx.task_node] = "Success"

InterruptedLeafSucceeds ==
  (last'.op = "tick" /\ last'.st # "Panic") =>
    \A n \in NodesOfKind("DynamicEntity") :
      (owed[n] = "Success" /\ "interrupt" \in sources[n] /\ "timeout" \notin sources[n]) =>
        (Called(n) /\ Call(n).st = "Success" /\ nodes'[n].status = "Success")

OwnReportAloneOtherwise ==
  \A n \in NodesOfKind("DynamicEntity") :
    ("interrupt" \notin sources'[n] /\ "timeout" \notin sources'[n]) =>
      /\ (nodes'[n].task_status = "Complete" /\
           (nodes[n].task_status # "Complete" \/ nodes[n].task_ok # nodes'[n].task_ok)) =>
            /\ last'.op = "report"
            /\ last'.ctx.task_node = n
            /\ "task" \in sources'[n]
            /\ nodes'[n].task_ok = last'.ok
      /\ (last'.op = "tick" /\ last'.st # "Panic" /\ nodes[n].task_status = "Complete"
           /\ Called(n) /\ ~Call(n).sc /\ ~(\E m \in NodeIds : <<m, n>> \in resets')) =>
            Call(n).st = StatusOf(nodes[n].task_ok)

InterruptPreempts ==
  [][InterruptIssuesSuccess /\ InterruptedLeafSucceeds /\ OwnReportAloneOtherwise]_vars

\* the property without the next tick: what the response and the reports do
InterruptPreemptsReportPart == [][InterruptIssuesSuccess /\ OwnReportAloneOtherwise]_vars


(***************************************************************************)
(* C21  Empty control-flow nodes are permitted.  BehaveTree::verify is     *)
(* true for the template that is one Sequence with no children and for the *)
(* one that is one Fallback with no children (test_empty_control_flow).    *)
(***************************************************************************)
EmptySequenceTpl == 2

EmptyFallbackTpl == 3

EmptyControlFlowPermitted ==
  tpl \in {EmptySequenceTpl, EmptyFallbackTpl} =>
    /\ Children(Root) = <<>>
    /\ Kind(Root) \in {"Sequence", "Fallback"}
    /\ VerifyTree(Root)


(***************************************************************************)
(* C25.  Reports for a leaf that is not outstanding are rejected: a status *)
(* report for a DynamicEntity or TriggerReq leaf that is not in Started or *)
(* Triggered state changes no node (so a stored result is not overwritten) *)
(* and leaves the suspension marker of the tree as it was.                 *)
(***************************************************************************)
Outstanding(n) ==
  \/ Kind(n) = "DynamicEntity" /\ nodes[n].task_status = "Started"
  \/ Kind(n) = "TriggerReq" /\ nodes[n].task_status = "Triggered"

ReportNotOutstandingStep ==
  (/\ last'.op = "report"
   /\ Kind(last'.ctx.task_node) \in {"DynamicEntity", "TriggerReq"}
   /\ ~Outstanding(last'.ctx.task_node)) =>
     /\ nodes' = nodes
     /\ awaiting' = awaiting

ReportNotOutstandingRejected == [][ReportNotOutstandingStep]_vars


\* the program with reports that carry a context of an earlier tree
StaleNext ==
  \/ Next
  \/ \E ctx \in StaleCtxs, success \in BOOLEAN : StaleReport(ctx, success)

\* the trees the stale reports are looked at on: templates 1 and 13 with leaves
\* of every reporting kind and a Wait, template 32 with a timeout and an interrupt
StaleTpls == {1, 13, 32}

StaleInit == Init /\ tpl \in StaleTpls

StaleSpec == StaleInit /\ [][StaleNext]_vars

(***************************************************************************)
(* C26.  Malformed reports are dropped without effect: a status report     *)
(* whose node id does not exist in the tree, or names a control node or a  *)
(* Wait, or whose context type does not match the kind of the node, does   *)
(* not panic, changes no node and neither adds nor removes the suspension  *)
(* marker.                                                                 *)
(***************************************************************************)
MalformedReportStep ==
  (last'.op \in {"report", "report_panic"} /\ Malformed(last'.ctx)) =>
     /\ ~panicked'
     /\ nodes' = nodes
     /\ awaiting' = awaiting

MalformedReportDropped == [][MalformedReportStep]_vars


(***************************************************************************)
(* C27.  Reports for a finished or destroyed tree are dropped: a status    *)
(* report that arrives while the tree is marked finished, or after the     *)
(* tree entity is gone, changes no node, no marker and no task entity, and *)
(* does not panic.                                                         *)
(***************************************************************************)
ReportToFinishedStep ==
  (/\ last'.op \in {"report", "report_dropped"}
   /\ (finished # "None" \/ ~treeAlive)) =>
     /\ last'.op = "report_dropped"
     /\ nodes' = nodes
     /\ awaiting' = awaiting
     /\ finished' = finished
     /\ treeAlive' = treeAlive
     /\ alive' = alive
     /\ released' = released
     /\ ~panicked'

ReportToFinishedDropped == [][ReportToFinishedStep]_vars

\* a report has reached a finished tree whose leaf held another result
ReportToFinishedWitness ==
  /\ last.op = "report_dropped"
  /\ treeAlive
  /\ finished # "None"
  /\ Kind(last.ctx.task_node) \in {"DynamicEntity", "TriggerReq"}
  /\ nodes[last.ctx.task_node].task_status = "Complete"
  /\ nodes[last.ctx.task_node].task_ok # last.ok


(***************************************************************************)
(* C28.  Reset is complete: when a node whose stored status is             *)
(* PendingReset is ticked, every node of its subtree is back in its        *)
(* construction-time state before the node is evaluated by kind: status    *)
(* None, start time None, task state NotStarted or NotTriggered.           *)
(***************************************************************************)
\* the nodes as tick_node has them between reset_descendants and the match on
\* the kind of r
AfterReset(r) ==
  ResetDescendants(SetStatus(TickStart(nodes, nextEntity), r, "Running"), r, r).ns

\* the reset step leaves every node of the subtree of r as BehaveNode::new does
ResetRestoresSubtree(r) ==
  \A m \in Subtree(r) : AfterReset(r)[m] = BehaveNodeNew(Kind(m))

\* a tick that evaluates a node r it found in PendingReset has reset all of its
\* subtree to the construction-time state, and finds the descendants it goes on
\* to evaluate in that state
ResetBeforeEvaluation ==
  (last'.op = "tick" /\ last'.st # "Panic") =>
    \A i \in 1..Len(log') :
      (log'[i].was = "PendingReset" /\ ~log'[i].sc) =>
        /\ nodes[log'[i].node].status = "PendingReset"
        /\ ResetRestoresSubtree(log'[i].node)
        /\ \A m \in Subtree(log'[i].node) : <<log'[i].node, m>> \in resets'
        /\ \A j \in 1..Len(log') :
             (log'[j].node \in Subtree(log'[i].node) /\ log'[j].node # log'[i].node) =>
               /\ log'[j].was = "None"
               /\ ~log'[j].sc
               /\ log'[j].task_was \in {"NA", "NotStarted", "NotTriggered"}

ResetIsComplete == [][ResetBeforeEvaluation]_vars

\* a Forever that held PendingReset was ticked, and the leaf below it, which had
\* resolved in the iteration before, was evaluated from its construction-time state
ResetIsCompleteWitness ==
  /\ AfterTick
  /\ \E i, j \in 1..Len(log) :
       /\ Kind(log[i].node) = "Forever"
       /\ log[i].was = "PendingReset"
       /\ Parent(log[j].node) = log[i].node
       /\ Kind(log[j].node) \in {"DynamicEntity", "TriggerReq"}
       /\ log[j].task_was \in {"NotStarted", "NotTriggered"}
       /\ <<log[i].node, log[j].node>> \in resets


(***************************************************************************)
(* C29.  Loop reset is deferred to the next tick: in the tick in which the *)
(* child of a Forever or the body of a While resolves, the looping node    *)
(* only marks itself PendingReset; it does not reset or tick its children  *)
(* again.  So within one tick of the tree no leaf is started (spawned or   *)
(* fired) more than once and no node is evaluated twice.                   *)
(***************************************************************************)
\* the spawn and trigger commands for leaf n in the queue q
Starts(q, n) == SelectSeq(q, LAMBDA c : c.op \in {"spawn", "trigger"} /\ c.node = n)

DeferredLoopResetStep ==
  (last'.op = "tick" /\ last'.st # "Panic") =>
    /\ \A i, j \in 1..Len(log') : log'[i].node = log'[j].node => i = j
    /\ \A n \in NodeIds : Len(Starts(cmds', n)) <= 1
    /\ \A i \in 1..Len(log') :
         (/\ Kind(log'[i].node) \in {"Forever", "While"}
          /\ log'[i].st = "PendingReset"
          /\ ~log'[i].sc
          /\ \A j \in 1..Len(log') :
               Parent(log'[j].node) = log'[i].node => log'[j].st \in {"Success", "Failure"}) =>
            /\ nodes'[log'[i].node].status = "PendingReset"
            /\ log'[i].was # "PendingReset" =>
                 \A m \in NodeIds : <<log'[i].node, m>> \notin resets'
            /\ \A j \in 1..Len(log') :
                 Parent(log'[j].node) = log'[i].node =>
                   nodes'[log'[j].node].status = log'[j].st

DeferredLoopReset == [][DeferredLoopResetStep]_vars

\* a Forever that was reset at the start of the tick has looped back again in
\* the same tick: its child was evaluated once and keeps its result
DeferredLoopResetWitness ==
  /\ AfterTick
  /\ \E i, j \in 1..Len(log) :
       /\ Kind(log[i].node) = "Forever"
       /\ log[i].was = "PendingReset"
       /\ log[i].st = "PendingReset"
       /\ Parent(log[j].node) = log[i].node
       /\ log[j].st \in {"Success", "Failure"}
       /\ nodes[log[j].node].status = log[j].st


(***************************************************************************)
(* C30.  PendingReset is never exposed past a looping ancestor: no         *)
(* Sequence, Fallback, Invert or IfThen node has PendingReset as its       *)
(* stored status.                                                          *)
(***************************************************************************)
PendingResetNotExposed ==
  \A n \in NodeIds :
    Kind(n) \in {"Sequence", "Fallback", "Invert", "IfThen"} =>
      nodes[n].status # "PendingReset"


(***************************************************************************)
(* The schedule.  BehavePlugin::build puts tick_timeout_components and     *)
(* then tick_trees (or tick_trees_sync) in every run of the schedule; the  *)
(* commands of a system are applied at the sync point after it, and the    *)
(* observers run while they are applied.  The trees of a template are the  *)
(* tree the user inserts (Root) and the trees its tasks are spawned with.  *)
(***************************************************************************)
\* at most MaxFrames runs of the schedule
MaxFrames == 6

\* user code issues at most MaxLate reports between the runs
MaxLate == 1

\* plugin.rs: const SANITY_LOOP_LIMIT: usize = 1000
SANITY_LOOP_LIMIT == 1000

Roots == {n \in NodeIds : Parent(n) = 0}

\* the root of the BehaveTree in the bundle of DynamicEntity node n (0: none)
NestedOf(n) == IF "nested" \in DOMAIN T THEN T.nested[n] ELSE 0

RECURSIVE TreeOf(_)
\* the root of the tree node n belongs to
TreeOf(n) == IF Parent(n) = 0 THEN n ELSE TreeOf(Parent(n))

\* the DynamicEntity node that spawns tree r (0: the user inserts it)
SpawnerOf(r) ==
  IF \E n \in NodeIds : NestedOf(n) = r
    THEN CHOOSE n \in NodeIds : NestedOf(n) = r
    ELSE 0

\* a tree entity: whether it exists, its BehaveAwaitingTrigger and BehaveFinished
\* components, and its Entity id (0 for the entity of the user)
TreeEntity(exists, awaiting_, finished_, entity) ==
  [exists |-> exists, awaiting |-> awaiting_, finished |-> finished_, entity |-> entity]

NoReport == [step |-> 0, after |-> FALSE]

\* the world the commands of one sync point are applied to, one after the other;
\* step is the run of the schedule, after says that tick_trees has run in it
World(ns, step, after) ==
  [ns |-> ns, trees |-> trees, alive |-> alive, released |-> released,
   handedOut |-> handedOut, spawnedBy |-> spawnedBy, timeoutStart |-> timeoutStart,
   finishedAt |-> finishedAt, reportedAt |-> reportedAt, step |-> step, after |-> after]

\* try_despawn_recursive on task entity e (0: None): the entity goes, with the
\* BehaveTree it holds and the task entities that tree has spawned as children
Despawn(w, e) ==
  IF e = 0 THEN w
  ELSE [w EXCEPT
          !.released[e] = @ + 1,
          !.alive = {x \in @ : x # e /\ ~(w.spawnedBy[x] # 0
                                            /\ w.trees[TreeOf(w.spawnedBy[x])].entity = e)},
          !.trees = [r \in Roots |->
                       IF @[r].entity = e THEN [@[r] EXCEPT !.exists = FALSE] ELSE @[r]]]

\* on_behave_status_report in the world w
StatusReport(w, ctx, success) ==
  LET r == TreeOf(ctx.task_node) IN
  IF ~w.trees[r].exists \/ w.trees[r].finished # "None" THEN w
  ELSE LET res == SetNodeResult(w.ns, ctx, success) IN
       Despawn([w EXCEPT !.trees[r].awaiting = FALSE,
                         !.ns = res.ns,
                         !.reportedAt[ctx.task_node] = [step |-> w.step, after |-> w.after]],
               res.task_entity)


\* the command tick_trees queues for the status the tree with root r returned
RootMarkerCmds(r, tick_result) ==
  [i \in 1..Len(MarkerCmds(tick_result)) |-> [MarkerCmds(tick_result)[i] EXCEPT !.node = r]]

\* one command of a sync point in the world w, with the observers it sets off:
\* the observer of a trigger answers at once when policy says so, and the
\* observer of On<Add, BehaveFinished> reports the result of a nested tree on
\* its BehaveCtx, as the observer of run_frame_delays does
SchedCommand(w, c) ==
  CASE c.op = "spawn" ->
         LET r == NestedOf(c.node)
             w1 == [w EXCEPT !.spawnedBy[c.e] = c.node,
                             !.alive = @ \cup {c.e},
                             !.handedOut = @ \cup {BehaveCtx(c.node, "Entity", c.e)},
                             !.timeoutStart[c.e] = IF HasTimeout(c.node) THEN now ELSE @]
         IN IF r = 0 THEN w1
            ELSE [w1 EXCEPT !.trees[r] = TreeEntity(TRUE, FALSE, "None", c.e),
                            !.ns = [n \in NodeIds |->
                                      IF TreeOf(n) = r THEN BehaveNodeNew(Kind(n)) ELSE @[n]],
                            !.finishedAt[r] = 0]
    [] c.op = "trigger" ->
         LET w1 == [w EXCEPT !.handedOut = @ \cup {BehaveCtx(c.node, "Trigger", 0)}]
         IN IF policy = "later" THEN w1
            ELSE StatusReport(w1, BehaveCtx(c.node, "Trigger", 0), policy = "ok")
    [] c.op = "insert_awaiting" ->
         IF w.trees[c.node].exists THEN [w EXCEPT !.trees[c.node].awaiting = TRUE] ELSE w
    [] c.op \in {"insert_finished_true", "insert_finished_false"} ->
         IF ~w.trees[c.node].exists THEN w
         ELSE LET ok == c.op = "insert_finished_true"
                  w1 == [w EXCEPT !.trees[c.node].finished = IF ok THEN "true" ELSE "false",
                                  !.finishedAt[c.node] = w.step]
              IN IF SpawnerOf(c.node) = 0 THEN w1
                 ELSE StatusReport(w1, BehaveCtx(SpawnerOf(c.node), "Entity",
                                                 w.trees[c.node].entity), ok)
    [] c.op \in {"report_true", "report_false"} ->
         StatusReport(w, BehaveCtx(c.node, "Entity", c.e), c.op = "report_true")

RECURSIVE SchedCommands(_, _)
\* the sync point: the commands of the queue q, in the order they were queued
SchedCommands(w, q) ==
  IF q = <<>> THEN w ELSE SchedCommands(SchedCommand(w, Head(q)), Tail(q))

\* the world w becomes the state
SetWorld(w) ==
  /\ nodes' = w.ns
  /\ trees' = w.trees
  /\ alive' = w.alive
  /\ released' = w.released
  /\ handedOut' = w.handedOut
  /\ spawnedBy' = w.spawnedBy
  /\ timeoutStart' = w.timeoutStart
  /\ finishedAt' = w.finishedAt
  /\ reportedAt' = w.reportedAt

\* what the schedule leaves alone
SchedUnchanged ==
  UNCHANGED <<tpl, awaiting, finished, treeAlive, cmds, fired, allOk, owed,
              pending, nextTemp, temps, answered, sources, sync, policy>>

\* the query filter of the tick systems, for the tree with root r
EligibleTree(r) ==
  /\ trees[r].exists
  /\ ~trees[r].awaiting
  /\ trees[r].finished = "None"

\* the orders in which a query can hand out the trees of the set S
Orders(S) ==
  {o \in [1..Cardinality(S) -> S] : \A i, j \in 1..Cardinality(S) : o[i] = o[j] => i = j}

\* the tick of the tree with root r has returned res: the match on the result
\* queues the marker; sts keeps the result of each tree
TreeTicked(sts, r, res) ==
  [s |-> [res.s EXCEPT !.fx = @ \o RootMarkerCmds(r, res.st)],
   sts |-> [sts EXCEPT ![r] = res.st]]

RECURSIVE TickEach(_, _, _)
\* the loop over the query of tick_trees, from the i-th tree of order on
TickEach(p, order, i) ==
  IF i > Len(order) THEN p
  ELSE TickEach(TreeTicked(p.sts, order[i], TickNode(p.s, order[i], now)), order, i + 1)

\* the pass over the trees in the given order
TickPass(order) ==
  TickEach([s |-> TickStart(nodes, nextEntity), sts |-> [r \in Roots |-> "NotTicked"]],
           order, 1)


\* the trees the schedule is looked at on: 38 the tree of run_frame_delays, 39 a
\* nested tree that resolves at once, 18 Forever{AlwaysSucceed}, 13 a Wait and a
\* task, 35 a task with a timeout, 1 a trigger and a task
SchedTpls == {FrameDelayTpl, NestedAtOnceTpl, 18, 13, 35, 1}

\* the app after the user has inserted the BehaveTree of Root; the flag of the
\* plugin and the behaviour of the observers are fixed from the start
SchedInit ==
  /\ InitTree
  /\ tpl \in SchedTpls
  /\ sync \in BOOLEAN
  /\ policy \in {"ok", "fail", "later"}
  /\ frame = 0
  /\ phase = "idle"
  /\ passes = 0
  /\ trees = [r \in Roots |-> TreeEntity(r = Root, FALSE, "None", 0)]
  /\ ticks = [r \in Roots |-> 0]
  /\ finishedAt = [r \in Roots |-> 0]
  /\ reportedAt = [n \in NodeIds |-> NoReport]
  /\ lateReports = 0

\* the record of a step of the schedule: what ran, and for a tick pass the
\* status each tree returned ("NotTicked": the query did not hold it)
SchedLast(op, sts) == [op |-> op, sts |-> sts]

NotTicked == [r \in Roots |-> "NotTicked"]

\* a run of the schedule begins; the clock has advanced by dt
BeginStep(dt) ==
  /\ phase = "idle"
  /\ ~panicked
  /\ frame < MaxFrames
  /\ now + dt <= MaxTime
  /\ frame' = frame + 1
  /\ now' = now + dt
  /\ phase' = "timeout"
  /\ passes' = 0
  /\ ticks' = [r \in Roots |-> 0]
  /\ last' = SchedLast("begin", NotTicked)
  /\ log' = <<>>
  /\ resets' = {}
  /\ UNCHANGED <<nodes, trees, alive, released, handedOut, spawnedBy, timeoutStart,
                 finishedAt, reportedAt, nextEntity, panicked, lateReports>>
  /\ SchedUnchanged

\* tick_timeout_components and the sync point after it: the reports of the due
\* timeouts reach on_behave_status_report before tick_trees runs
RunTimeoutsTo(w) ==
  /\ SetWorld(w)
  /\ phase' = "tick"
  /\ last' = SchedLast("timeouts", NotTicked)
  /\ log' = <<>>
  /\ resets' = {}
  /\ UNCHANGED <<frame, now, passes, ticks, nextEntity, panicked, lateReports>>
  /\ SchedUnchanged

RunTimeouts ==
  /\ phase = "timeout"
  /\ RunTimeoutsTo(SchedCommands(World(nodes, frame, FALSE), TimeoutReports(1)))

\* a pass over the trees has returned p and its commands have made the world w
PassApplied(p, w) ==
  /\ p.s.next <= MaxEntities + 1
  /\ SetWorld(w)
  /\ nextEntity' = p.s.next
  /\ log' = p.s.log
  /\ resets' = p.s.resets
  /\ ticks' = [r \in Roots |-> ticks[r] + IF p.sts[r] # "NotTicked" THEN 1 ELSE 0]
  /\ panicked' = \E r \in Roots : p.sts[r] = "Panic"
  /\ last' = SchedLast("tick_trees", p.sts)
  /\ UNCHANGED <<frame, now, lateReports>>
  /\ SchedUnchanged

\* the sync point after a pass that left the tick state s
AfterPass(s) == SchedCommands(World(s.ns, frame, TRUE), s.fx)

TickTreesPass(p) ==
  /\ PassApplied(p, AfterPass(p.s))
  /\ phase' = "idle"
  /\ UNCHANGED passes

\* a pass that counts the trees that returned RunningTimer as processed
TickTreesSyncPassCountsTimers(p) ==
  /\ PassApplied(p, AfterPass(p.s))
  /\ passes' = passes + 1
  /\ phase' = IF \A r \in Roots : p.sts[r] = "NotTicked" THEN "idle" ELSE "tick"

\* the end of a pass of tick_trees_sync: break if trees_processed == 0
TickTreesSyncPass(p) ==
  /\ PassApplied(p, AfterPass(p.s))
  /\ passes' = passes + 1
  /\ phase' = IF \A r \in Roots : p.sts[r] \in {"NotTicked", "RunningTimer"}
                THEN "idle" ELSE "tick"

\* a tick_trees that goes on ticking, as tick_trees_sync does
TickTreesAgain ==
  /\ ~sync
  /\ phase = "tick"
  /\ \E order \in Orders({r \in Roots : EligibleTree(r)}) : TickTreesSyncPass(TickPass(order))

\* tick_trees: every tree of the query is ticked once
TickTrees ==
  /\ ~sync
  /\ phase = "tick"
  /\ \E order \in Orders({r \in Roots : EligibleTree(r)}) : TickTreesPass(TickPass(order))

\* tick_trees_sync leaves its loop without a pass
TickTreesSyncEnd(op, counter) ==
  /\ phase' = "idle"
  /\ passes' = counter
  /\ last' = SchedLast(op, NotTicked)
  /\ log' = <<>>
  /\ resets' = {}
  /\ UNCHANGED <<nodes, trees, alive, released, handedOut, spawnedBy, timeoutStart,
                 finishedAt, reportedAt, nextEntity, panicked, frame, now, ticks,
                 lateReports>>
  /\ SchedUnchanged

\* a tick_trees_sync without the sanity counter
TickTreesSyncNoLimit ==
  /\ sync
  /\ phase = "tick"
  /\ IF {r \in Roots : EligibleTree(r)} = {} THEN TickTreesSyncEnd("sync_return", passes)
     ELSE \E order \in Orders({r \in Roots : EligibleTree(r)}) :
            TickTreesSyncPass(TickPass(order))

\* tick_trees_sync, one turn of its loop
TickTreesSync ==
  /\ sync
  /\ phase = "tick"
  /\ IF {r \in Roots : EligibleTree(r)} = {} THEN TickTreesSyncEnd("sync_return", passes)
     ELSE IF passes + 1 > SANITY_LOOP_LIMIT THEN TickTreesSyncEnd("sanity_break", passes + 1)
     ELSE \E order \in Orders({r \in Roots : EligibleTree(r)}) :
            TickTreesSyncPass(TickPass(order))

\* user code reports on a context it holds, between two runs of the schedule
LateReportTo(w) ==
  /\ SetWorld(w)
  /\ lateReports' = lateReports + 1
  /\ last' = SchedLast("late_report", NotTicked)
  /\ log' = <<>>
  /\ resets' = {}
  /\ UNCHANGED <<frame, now, phase, passes, ticks, nextEntity, panicked>>
  /\ SchedUnchanged

LateReport(ctx, success) ==
  /\ phase = "idle"
  /\ ~panicked
  /\ lateReports < MaxLate
  /\ ctx \in handedOut
  /\ LateReportTo(StatusReport(World(nodes, frame, TRUE), ctx, success))

SchedNext ==
  \/ \E dt \in {0, 1} : BeginStep(dt)
  \/ RunTimeouts
  \/ TickTrees
  \/ TickTreesSync
  \/ \E ctx \in handedOut, success \in BOOLEAN : LateReport(ctx, success)

SchedSpec == SchedInit /\ [][SchedNext]_vars

SchedTypeOK ==
  /\ sync \in BOOLEAN
  /\ frame \in 0..MaxFrames
  /\ phase \in {"idle", "timeout", "tick"}
  /\ passes \in 0..(SANITY_LOOP_LIMIT + 1)
  /\ \A r \in Roots : ticks[r] \in 0..SANITY_LOOP_LIMIT
  /\ \A r \in Roots : finishedAt[r] \in 0..frame
  /\ \A n \in NodeIds : reportedAt[n].step \in 0..frame


(***************************************************************************)
(* C22.  Deferred mode latency: without the synchronous flag every         *)
(* eligible tree is ticked exactly once in a scheduling step, and a status *)
(* report applied during step N is first observed by the tick of its tree  *)
(* in step N+1; so the tree of run_frame_delays, Sequence{Trigger,         *)
(* Spawn(nested tree{Trigger})}, with every trigger answered with success  *)
(* at once and the result of the nested tree reported on its context, is   *)
(* marked finished in step 5, not before and not after.                    *)
(***************************************************************************)
\* the entries of the log of a pass in which a leaf was found to hold a report
Observes(entry) ==
  /\ Kind(entry.node) \in {"DynamicEntity", "TriggerReq"}
  /\ entry.task_was = "Complete"
  /\ ~entry.sc

TickedOncePerStep ==
  /\ ~sync => \A r \in Roots : ticks[r] <= 1
  /\ (~sync /\ last'.op = "tick_trees") =>
       \A r \in Roots : ticks'[r] = IF EligibleTree(r) THEN 1 ELSE 0

\* the claim as it is stated: every report is observed one step after it was applied
ObservedInNextStep ==
  (~sync /\ last'.op = "tick_trees") =>
     \A i \in 1..Len(log') :
       Observes(log'[i]) => reportedAt[log'[i].node].step = frame - 1

\* a report applied after tick_trees has run in step N is observed in step N+1,
\* one applied before it (by tick_timeout_components) in step N
ObservedAfterSyncPoint ==
  (~sync /\ last'.op = "tick_trees") =>
     \A i \in 1..Len(log') :
       Observes(log'[i]) =>
         reportedAt[log'[i].node].step =
           IF reportedAt[log'[i].node].after THEN frame - 1 ELSE frame

FrameDelayScenario == tpl = FrameDelayTpl /\ policy = "ok" /\ lateReports = 0

FinishedInStepFive ==
  (FrameDelayScenario /\ ~sync) =>
     /\ finishedAt[Root] \in {0, 5}
     /\ (frame > 5 \/ (frame = 5 /\ phase = "idle")) => finishedAt[Root] = 5

DeferredLatencyAsStated ==
  [][TickedOncePerStep /\ ObservedInNextStep /\ FinishedInStepFive]_vars

DeferredLatency ==
  [][TickedOncePerStep /\ ObservedAfterSyncPoint /\ FinishedInStepFive]_vars

\* the tree of run_frame_delays has finished in step 5 of the deferred mode
DeferredLatencyWitness ==
  /\ FrameDelayScenario
  /\ ~sync
  /\ finishedAt[Root] = 5
  /\ trees[Root].finished = "true"


(***************************************************************************)
(* C23.  Synchronous (drain) mode removes the latency: within one          *)
(* scheduling step, after the reports of each pass are applied, every tree *)
(* that is neither suspended nor finished is ticked again, until a pass in *)
(* which no tree returned a status other than RunningTimer or no eligible  *)
(* tree is left; so the tree of run_frame_delays is marked finished in     *)
(* step 1.                                                                 *)
(***************************************************************************)
SomeEligible == \E r \in Roots : EligibleTree(r)

\* a pass ticks each eligible tree once, and the loop ends with it exactly when
\* no tree returned a status other than RunningTimer
DrainPass ==
  (sync /\ last'.op = "tick_trees") =>
     /\ \A r \in Roots : ticks'[r] = ticks[r] + IF EligibleTree(r) THEN 1 ELSE 0
     /\ phase' = "idle" <=>
          \A r \in Roots : last'.sts[r] \in {"NotTicked", "RunningTimer"}
     /\ \A i \in 1..Len(log') :
          (Observes(log'[i]) /\ passes >= 1) => reportedAt[log'[i].node].step = frame

\* the loop goes on to another pass while an eligible tree is left
DrainGoesOn ==
  (sync /\ phase = "tick") =>
     IF SomeEligible THEN last'.op = "tick_trees"
     ELSE last'.op = "sync_return" /\ phase' = "idle"

\* the loop goes on to another pass while an eligible tree is left and fewer than
\* SANITY_LOOP_LIMIT passes were made
DrainGoesOnToLimit ==
  (sync /\ phase = "tick") =>
     IF SomeEligible
       THEN IF passes < SANITY_LOOP_LIMIT THEN last'.op = "tick_trees"
            ELSE last'.op = "sanity_break" /\ phase' = "idle"
       ELSE last'.op = "sync_return" /\ phase' = "idle"

FinishedInStepOne ==
  (FrameDelayScenario /\ sync) =>
     /\ finishedAt[Root] \in {0, 1}
     /\ (frame >= 1 /\ phase = "idle") => finishedAt[Root] = 1

DrainModeAsStated == [][DrainPass /\ DrainGoesOn /\ FinishedInStepOne]_vars

DrainMode == [][DrainPass /\ DrainGoesOnToLimit /\ FinishedInStepOne]_vars

\* the tree of run_frame_delays has finished in the first step of the drain mode
DrainModeWitness ==
  /\ FrameDelayScenario
  /\ sync
  /\ frame = 1
  /\ finishedAt[Root] = 1
  /\ trees[Root].finished = "true"
  /\ passes > 1


(***************************************************************************)
(* C24.  The synchronous drain loop ends within the step: whatever the     *)
(* trees do, also if they make progress on every pass as                   *)
(* Forever{AlwaysSucceed} does, one run of tick_trees_sync makes at most   *)
(* SANITY_LOOP_LIMIT = 1000 tick passes and then returns, and no tree is   *)
(* ticked more than 1000 times in one step.                                *)
(***************************************************************************)
DrainBounded ==
  /\ \A r \in Roots : ticks[r] <= SANITY_LOOP_LIMIT
  /\ \A r \in Roots : ticks[r] <= passes \/ ~sync
  /\ passes <= SANITY_LOOP_LIMIT + 1
  /\ passes > SANITY_LOOP_LIMIT => phase = "idle"

\* after SANITY_LOOP_LIMIT passes the next turn of the loop leaves it
DrainReturns ==
  (sync /\ phase = "tick" /\ passes >= SANITY_LOOP_LIMIT) =>
     /\ phase' = "idle"
     /\ last'.op \in {"sanity_break", "sync_return"}
     /\ ticks' = ticks

DrainTerminates == [][DrainBounded /\ DrainReturns]_vars

\* Forever{AlwaysSucceed} was ticked SANITY_LOOP_LIMIT times in one step, and
\* tick_trees_sync has returned
DrainTerminatesWitness ==
  /\ sync
  /\ Kind(Root) = "Forever"
  /\ ticks[Root] = SANITY_LOOP_LIMIT
  /\ last.op = "sanity_break"
  /\ phase = "idle"



(***************************************************************************)
(* C31.  Wait timing: the first tick of a fresh Wait(d) records the        *)
(* current time as its start and returns Running, never Success, also for  *)
(* d = 0; each later tick returns Success iff the time elapsed since the   *)
(* start is strictly more than d, and RunningTimer otherwise; the start    *)
(* time is not changed by later ticks until the node is reset.             *)
(***************************************************************************)
\* the start time the tick this step makes finds in Wait node n: None (-1) if
\* the tick has reset the node
StartFound(n) == IF WasReset(n, resets') THEN -1 ELSE nodes[n].start_time

WaitTimingStep ==
  /\ (last'.op = "tick" /\ last'.st # "Panic") =>
       \A i \in 1..Len(log') :
         Kind(log'[i].node) = "Wait" =>
           LET n == log'[i].node IN
           IF StartFound(n) = -1
             THEN /\ log'[i].st = "Running"
                  /\ nodes'[n].start_time = now
                  /\ nodes'[n].status = "Running"
             ELSE /\ log'[i].st = "Success" <=> now - StartFound(n) > SecsToWait(n)
                  /\ log'[i].st # "Success" => log'[i].st = "RunningTimer"
                  /\ nodes'[n].start_time = StartFound(n)
  /\ \A n \in NodesOfKind("Wait") :
       nodes'[n].start_time # nodes[n].start_time =>
         /\ last'.op = "tick"
         /\ nodes[n].start_time = -1 \/ WasReset(n, resets')

WaitTiming == [][WaitTimingStep]_vars

\* a Wait(0) was ticked a second time at the very time it was started, and
\* went on waiting
WaitTimingWitness ==
  /\ AfterTick
  /\ \E n \in NodesOfKind("Wait") :
       /\ SecsToWait(n) = 0
       /\ Evaluated(n)
       /\ nodes[n].start_time = now
       /\ Returned(n) = "RunningTimer"



(***************************************************************************)
(* C32.  TriggerReq lifecycle: a TriggerReq leaf fires its trigger once    *)
(* per activation, on the tick that finds it NotTriggered, with a context  *)
(* that carries no task entity, and that tick returns Running; the next    *)
(* tick returns Success or Failure if a report with that outcome was       *)
(* stored in between and AwaitingTrigger if none was; a leaf in Triggered  *)
(* state does not fire its trigger again until it is reset.                *)
(***************************************************************************)
\* what a tick does with each TriggerReq leaf, by the task state it finds
TriggerTickStep ==
  (last'.op = "tick" /\ last'.st # "Panic") =>
    \A n \in NodesOfKind("TriggerReq") :
      /\ (~Called(n) \/ Call(n).sc) => Starts(cmds', n) = <<>>
      /\ (Called(n) /\ ~Call(n).sc) =>
           CASE Call(n).task_was = "NotTriggered" ->
                  /\ Call(n).st = "Running"
                  /\ Starts(cmds', n) = << [op |-> "trigger", node |-> n, e |-> 0] >>
                  /\ nodes'[n].task_status = "Triggered"
             [] Call(n).task_was = "Triggered" ->
                  /\ Call(n).st = "AwaitingTrigger"
                  /\ Starts(cmds', n) = <<>>
                  /\ nodes'[n].task_status = "Triggered"
             [] Call(n).task_was = "Complete" ->
                  /\ Call(n).st = StatusOf(nodes[n].task_ok)
                  /\ Starts(cmds', n) = <<>>

\* the trigger reaches the observer with a context for a trigger, without a task
\* entity; a report on a Triggered leaf stores its outcome
TriggerReportStep ==
  /\ last'.op = "trigger" =>
       /\ handedOut' = handedOut \cup {BehaveCtx(Head(cmds).node, "Trigger", 0)}
       /\ fired' = [fired EXCEPT ![Head(cmds).node] = @ + 1]
  /\ (/\ last'.op = "report"
      /\ Kind(last'.ctx.task_node) = "TriggerReq"
      /\ nodes[last'.ctx.task_node].task_status = "Triggered") =>
       /\ nodes'[last'.ctx.task_node].task_status = "Complete"
       /\ nodes'[last'.ctx.task_node].task_ok = last'.ok

\* the outcome stored in the leaf is there for the next tick to find
TriggerResultKept ==
  \A n \in NodesOfKind("TriggerReq") :
    (nodes[n].task_status = "Complete" /\ last'.op # "tick") => nodes'[n] = nodes[n]

TriggerLifecycle == [][TriggerTickStep /\ TriggerReportStep /\ TriggerResultKept]_vars

\* the lifecycle without the keeping of the stored outcome
TriggerLifecycleFiring == [][TriggerTickStep /\ TriggerReportStep]_vars



(***************************************************************************)
(* C33.  The dormant-leaf assertion is never hit: after any sequence of    *)
(* ticks and completion reports, also duplicate or late reports on any     *)
(* context the tree has handed out, tick_node is never invoked on a        *)
(* DynamicEntity leaf whose task state is Started and whose stored status  *)
(* is AwaitingTrigger (the unreachable!() arm is not reached).             *)
(***************************************************************************)
\* the calls of tick_node a tick of the tree makes in the present state
CallsOfTick == TickNode(TickStart(nodes, nextEntity), Root, now).s.log

\* a call of tick_node that found a dormant leaf
OnDormantLeaf(call) ==
  /\ Kind(call.node) = "DynamicEntity"
  /\ call.task_was = "Started"
  /\ call.was = "AwaitingTrigger"

DormantLeafStep ==
  last'.op = "tick" => \A i \in 1..Len(CallsOfTick) : ~OnDormantLeaf(CallsOfTick[i])

DormantLeafNeverTicked == [][DormantLeafStep]_vars



(***************************************************************************)
(* C34.  At most one outstanding leaf per tree: in every reachable state   *)
(* at most one leaf is in Started (DynamicEntity) or Triggered             *)
(* (TriggerReq) state, and whenever the tree is suspended exactly one leaf *)
(* has the status AwaitingTrigger.                                         *)
(***************************************************************************)
TaskLeaves == NodesOfKind("DynamicEntity") \cup NodesOfKind("TriggerReq")

OutstandingLeaves == {n \in TaskLeaves : Outstanding(n)}

DormantLeaves == {n \in TaskLeaves : nodes[n].status = "AwaitingTrigger"}

OneOutstandingLeaf ==
  /\ Cardinality(OutstandingLeaves) <= 1
  /\ awaiting => Cardinality(DormantLeaves) = 1

\* the tree is suspended on its second task leaf, after the first one has
\* completed
OneOutstandingLeafWitness ==
  /\ awaiting
  /\ \E n, m \in TaskLeaves :
       /\ n # m
       /\ nodes[m].task_status = "Complete"
       /\ Outstanding(n)
       /\ DormantLeaves = {n}



(***************************************************************************)
(* C35.  No lost wake-up: in whatever order a completion report for the    *)
(* outstanding leaf and the insertion of the suspension marker, queued by  *)
(* a tick that returned AwaitingTrigger in the same step, are applied, the *)
(* tree does not end up suspended while the leaf already holds Complete    *)
(* and no further report is pending; so every report applied for the       *)
(* outstanding leaf is observed by a later tick of its tree.               *)
(***************************************************************************)
\* the tree with root r sleeps on leaf n, which holds a result no tick has seen
AsleepOnResult(r, n) ==
  /\ trees[r].exists
  /\ trees[r].awaiting
  /\ trees[r].finished = "None"
  /\ TreeOf(n) = r
  /\ nodes[n].status = "AwaitingTrigger"
  /\ nodes[n].task_status = "Complete"

\* between two runs of the schedule every command and every report of the run
\* has been applied
NoLostWakeUp ==
  phase = "idle" => \A r \in Roots : \A n \in NodeIds : ~AsleepOnResult(r, n)



(***************************************************************************)
(* C36.  A reset never orphans running work: whenever a subtree is reset   *)
(* because of PendingReset, no DynamicEntity leaf in it is in Started      *)
(* state and no TriggerReq leaf in it is in Triggered state; so a reset    *)
(* never drops the handle of a task entity that is still alive and never   *)
(* has a task that is still outstanding started a second time.             *)
(***************************************************************************)
\* the nodes a tick resets are reset before the tick evaluates them, so what the
\* reset finds in them is what they held when the tick began
ResetOrphansNothingStep ==
  (last'.op = "tick" /\ last'.st # "Panic") =>
    \A p \in resets' :
      /\ (Called(p[2]) /\ p[2] # p[1]) => Call(p[2]).was = "None"
      /\ ~Outstanding(p[2])
      /\ nodes[p[2]].task_entity \notin alive
      /\ \A e \in alive : spawnedBy[e] # p[2]

ResetOrphansNothing == [][ResetOrphansNothingStep]_vars

\* a tick has reset a DynamicEntity leaf whose task had completed and whose
\* task entity was despawned, and has spawned a new task entity for it
ResetOrphansNothingWitness ==
  /\ AfterTick
  /\ \E n \in NodesOfKind("DynamicEntity") :
       /\ WasReset(n, resets)
       /\ \E e \in Entities : spawnedBy[e] = n /\ released[e] = 1
       /\ nodes[n].task_status = "Started"
       /\ nodes[n].task_entity \notin alive



(***************************************************************************)
(* C37.  Validation is sufficient for ticking: on a template that          *)
(* BehaveTree::verify accepts, no sequence of ticks and completion reports *)
(* reaches a panic!, expect or unreachable! of tick_node; every number of  *)
(* children that validation accepts for Forever, While, IfThen and Invert  *)
(* is one tick_node handles.                                               *)
(***************************************************************************)
ForeverTwoTpl == 31

ValidationSufficient == VerifyTree(Root) => ~panicked



(***************************************************************************)
(* C38.  Interrupt checks are isolated from the tree: the report a check   *)
(* makes on its own short-lived context never by itself changes a node or  *)
(* the suspension marker of a tree (it is addressed to a temporary entity  *)
(* that holds no tree); the tree of the guarded task is affected only      *)
(* through the forced Success issued on the context of the task itself.    *)
(***************************************************************************)
InterruptIsolationStep ==
  answered'.temp # 0 =>
    /\ ~FindsTree(TempEntity(answered'.temp))
    /\ ~Interrupts(answered') =>
         /\ last'.op = "check_response"
         /\ nodes' = nodes
         /\ awaiting' = awaiting
         /\ finished' = finished
         /\ alive' = alive
         /\ released' = released
    /\ Interrupts(answered') =>
         /\ last'.op \in {"report", "report_dropped"}
         /\ last'.ctx = answered'.ctx
         /\ last'.ctx.ctx_type = "Entity"
         /\ last'.ok
         /\ \A n \in NodeIds : n # answered'.ctx.task_node => nodes'[n] = nodes[n]
         /\ finished' = finished
         /\ last'.op = "report_dropped" => (nodes' = nodes /\ awaiting' = awaiting)

InterruptIsolation == [][InterruptIsolationStep]_vars

\* a check was answered in a way that does not interrupt while the tree was
\* suspended on the guarded task: the tree is still suspended
InterruptIsolationWitness ==
  /\ answered.temp # 0
  /\ ~Interrupts(answered)
  /\ last.op = "check_response"
  /\ awaiting
  /\ nodes[answered.ctx.task_node].task_status = "Started"
  /\ nodes[answered.ctx.task_node].status = "AwaitingTrigger"



(***************************************************************************)
(* C39.  Interrupt check contexts are torn down once consumed: the temp    *)
(* entity of a check has its pending entry removed and is despawned when   *)
(* the response to it is handled, each pending entry is consumed at most   *)
(* once, and the pending set holds only checks not yet answered; once the  *)
(* guarded task has completed and been released no check context is made   *)
(* for it any more.                                                        *)
(***************************************************************************)
PendingTemps == {p.temp : p \in pending}

\* the pending entries are those of the temp entities that exist, one each,
\* all made before now, and the check just answered is not among them
ChecksPendingInv ==
  /\ temps = {TempEntity(t) : t \in PendingTemps}
  /\ Cardinality(pending) = Cardinality(PendingTemps)
  /\ Cardinality(temps) = Cardinality(pending)
  /\ \A p \in pending : p.temp >= 1 /\ p.temp < nextTemp
  /\ answered.temp \notin PendingTemps
  /\ answered.temp < nextTemp

CheckTeardownStep ==
  /\ nextTemp' >= nextTemp
  /\ answered'.temp # 0 =>
       /\ \E p \in pending : p.temp = answered'.temp /\ pending' = pending \ {p}
       /\ TempEntity(answered'.temp) \in temps
       /\ temps' = temps \ {TempEntity(answered'.temp)}
       /\ nextTemp' = nextTemp
  /\ answered'.temp = 0 =>
       /\ pending \subseteq pending'
       /\ temps \subseteq temps'
       /\ \A p \in pending' \ pending :
            /\ last'.op = "tick_interrupt"
            /\ p.temp >= nextTemp
            /\ p.temp < nextTemp'
            /\ TempEntity(p.temp) \notin temps
            /\ p.ctx.task_entity \in alive
            /\ released[p.ctx.task_entity] = 0
            /\ spawnedBy[p.ctx.task_entity] = p.ctx.task_node
            /\ nodes[p.ctx.task_node].task_status = "Started"

CheckTeardown == []ChecksPendingInv /\ [][CheckTeardownStep]_vars

\* a check was answered while another check stays pending and a later round of
\* checks has been made: the answered one is gone, entry and entity
CheckTeardownWitness ==
  /\ answered.temp # 0
  /\ pending # {}
  /\ TempEntity(answered.temp) \notin temps
  /\ \E p \in pending : p.temp > answered.temp
  /\ \E e \in Entities : spawnedBy[e] # 0 /\ Checks(spawnedBy[e]) # <<>> /\ released[e] = 1



(***************************************************************************)
(* C40.  Reset touches only the subtree: the reset of a node found in      *)
(* PendingReset changes the state of that node and of its descendants      *)
(* only; its siblings, earlier or later, its ancestors and every node      *)
(* outside its subtree are the same before and after the reset.            *)
(***************************************************************************)
\* the nodes outside the subtree of r that reset_descendants(r) writes to
ResetOutside(r, rs) == {m \in NodeIds : <<r, m>> \in rs /\ m \notin Subtree(r)}

\* the tick evaluated m before it came to r
EvaluatedBefore(m, r) ==
  \E i, j \in 1..Len(log') : i < j /\ log'[i].node = m /\ ~log'[i].sc /\ log'[j].node = r

\* what the reset of r writes to a node outside the subtree of r is what the
\* node held: the node is as it was before the tick, which had not come to it
ResetOnlySubtreeStep ==
  (last'.op = "tick" /\ last'.st # "Panic") =>
    \A r \in NodeIds :
      /\ (\E m \in NodeIds : <<r, m>> \in resets') =>
           /\ nodes[r].status = "PendingReset"
           /\ \A m \in Subtree(r) : <<r, m>> \in resets'
      /\ \A m \in ResetOutside(r, resets') :
           /\ ~EvaluatedBefore(m, r)
           /\ Reset(nodes[m], Kind(m)) = nodes[m]

ResetOnlySubtree == [][ResetOnlySubtreeStep]_vars

\* a tick reset a node that is not the root and went on to evaluate it, under
\* a parent that was and is Running
ResetOnlySubtreeWitness ==
  /\ last.op = "tick"
  /\ last.st # "Panic"
  /\ \E r \in NodeIds :
       /\ Parent(r) # 0
       /\ \A m \in Subtree(r) : <<r, m>> \in resets
       /\ Evaluated(r)
       /\ nodes[Parent(r)].status = "Running"
       /\ nodes[r].status = "Running"

=============================================================================
